---- MODULE Spec2Model ----
(***************************************************************************)
(* The deploy command of banda-cli (src/cmds/deploy.ts as shipped in       *)
(* src/src/cli.ts, lines 12-765) and the git helpers it calls              *)
(* (src/src/utils/utils.ts).                                               *)
(*                                                                         *)
(* One process runs main(): checkPrerequisites, getVariables, run, finish. *)
(* Every await of the code is one action; pc is the position of the        *)
(* process.  The progress files (the variable save file and the five lock  *)
(* files) and the git repository outlive the process, so the model runs    *)
(* several invocations one after the other.  Every git command, version    *)
(* file access and prompt answer is chosen by the environment.             *)
(*                                                                         *)
(* Strings are sequences of tokens, so that the names derived from them    *)
(* are computed by concatenation and the version format is really parsed.  *)
(***************************************************************************)
EXTENDS Integers, Sequences, FiniteSets, TLC

\* ------------------------------------------------------------------ bounds
\* number of invocations of the command a behaviour may contain
MaxRuns == 2
\* number of wrongly formatted answers the operator gives in one invocation
MaxBadInputs == 1

\* ------------------------------------------------------------- string data
Digits == {"0", "1", "2", "3", "4", "5", "6", "7", "8", "9"}
Empty == << >>
origin == <<"origin">>
develop == <<"develop">>
master == <<"master">>
staging == <<"staging">>
feature == <<"feature">>
V145 == <<"1", ".", "4", ".", "5">>
V146 == <<"1", ".", "4", ".", "6">>
V150 == <<"1", ".", "5", ".", "0">>
VSnapshot == <<"1", ".", "4", ".", "6", "-", "S">>

\* answers the input provider may give to each prompt
RemoteInputs == {origin}
SourceInputs == {develop}
TargetInputs == {master, develop}
DevelopmentInputs == {develop, master, staging}
VersionInputs == {V146, VSnapshot, Empty}
NextVersionInputs == {V150, VSnapshot, Empty}
\* versions the version file may hold on the target branch, on the source
\* branch, and on the branches run() reads it on
TargetRepoVersions == {V145}
SourceRepoVersions == {V150}
RepoVersions == {V146, V150}
\* branches the operator may be on when the command is started
InitialBranches == {feature}

IsDigits(s) == Len(s) > 0 /\ \A i \in 1..Len(s) : s[i] \in Digits

\* /^\d+\.\d+\.\d+$/
semverRegex(s) ==
    \E i, j \in 1..Len(s) :
        /\ i < j
        /\ s[i] = "."
        /\ s[j] = "."
        /\ IsDigits(SubSeq(s, 1, i - 1))
        /\ IsDigits(SubSeq(s, i + 1, j - 1))
        /\ IsDigits(SubSeq(s, j + 1, Len(s)))

createReleaseTag(versionNumber) == <<"v">> \o versionNumber

createReleaseBranchName(branchName) == <<"release/">> \o branchName

createDevelopmentMergeBranchName(target, development) ==
    <<"merge-banda/">> \o target \o <<"-to-">> \o development

\* ----------------------------------------------------- numbers of JavaScript
\* A number is its decimal digits without leading zeros; the numbers parsed
\* here are below 2^54.
DigitSeq == <<"0", "1", "2", "3", "4", "5", "6", "7", "8", "9">>

DigitValue(d) == (CHOOSE i \in 1..Len(DigitSeq) : DigitSeq[i] = d) - 1

RECURSIVE StripZeros(_)
StripZeros(s) == IF Len(s) > 1 /\ s[1] = "0" THEN StripZeros(Tail(s)) ELSE s

\* the digits of n + 1
RECURSIVE Inc(_)
Inc(n) ==
    IF n = << >> THEN <<"1">>
    ELSE LET front == SubSeq(n, 1, Len(n) - 1)
             d == DigitValue(n[Len(n)])
         IN  IF d = 9 THEN Inc(front) \o <<"0">> ELSE front \o <<DigitSeq[d + 2]>>

\* the digits of n - 1, for n whose last digit is not 0
Dec(n) == SubSeq(n, 1, Len(n) - 1) \o <<DigitSeq[DigitValue(n[Len(n)])]>>

\* a < b
RECURSIVE Less(_, _)
Less(a, b) ==
    IF Len(a) # Len(b) THEN Len(a) < Len(b)
    ELSE IF a = << >> THEN FALSE
    ELSE IF a[1] # b[1] THEN DigitValue(a[1]) < DigitValue(b[1])
    ELSE Less(Tail(a), Tail(b))

\* 2^53 = 9007199254740992: up to it every integer is a double
TwoTo53 == <<"9", "0", "0", "7", "1", "9", "9", "2", "5", "4", "7", "4", "0", "9", "9", "2">>

\* n mod 4, from its last two digits
Mod4(n) ==
    LET tens == IF Len(n) > 1 THEN DigitValue(n[Len(n) - 1]) ELSE 0
    IN  (10 * tens + DigitValue(n[Len(n)])) % 4

\* the double nearest to the integer n: between 2^53 and 2^54 the doubles
\* are the even integers, and a tie goes to the even mantissa (a multiple
\* of 4)
ToDouble(n) ==
    IF Less(n, TwoTo53) \/ Mod4(n) \in {0, 2} THEN n
    ELSE IF Mod4(n) = 1 THEN Dec(n) ELSE Inc(n)

\* parseInt(s, 10): the leading digits of s, as a number
parseInt(s) ==
    LET stop == IF \E i \in 1..Len(s) : s[i] \notin Digits
                THEN CHOOSE i \in 1..Len(s) :
                        /\ s[i] \notin Digits
                        /\ \A j \in 1..(i - 1) : s[j] \in Digits
                ELSE Len(s) + 1
    IN  ToDouble(StripZeros(SubSeq(s, 1, stop - 1)))

\* x + 1 in double arithmetic
PlusOne(x) == ToDouble(Inc(x))

\* utils.ts getSuggestedNextRepositoryVersion
getSuggestedNextRepositoryVersion(currentVersion) ==
    IF ~semverRegex(currentVersion) THEN <<"1", ".", "0", ".", "0">>
    ELSE LET dot == CHOOSE i \in 1..Len(currentVersion) :
                        currentVersion[i] = "." /\ IsDigits(SubSeq(currentVersion, 1, i - 1))
             \* replace(/\.\d+\.\d+$/, '')
             major == SubSeq(currentVersion, 1, dot - 1)
             \* replace(/^\d+\./, '')
             rest == SubSeq(currentVersion, dot + 1, Len(currentVersion))
         IN  major \o <<".">> \o PlusOne(parseInt(rest)) \o <<".", "0">>

\* utils.ts getFileNameSaveCwd: replace(/[\\\/:]/g, '_') of process.cwd()
getFileNameSaveCwd(cwd) ==
    [i \in 1..Len(cwd) |-> IF cwd[i] \in {"\\", "/", ":"} THEN "_" ELSE cwd[i]]

\* cli.ts progressFile: the names of the variable save file and of the five
\* lock files of a working directory, inside the progress directory
ProgressFileNames(cwd) ==
    { getFileNameSaveCwd(cwd) \o <<suffix>> :
        suffix \in { "-deploy.conf", "-deploy_source-merge.lock", "-target-merge.lock",
                     "-tagging.lock", "-development-pull-merge.lock",
                     "-development-merge.lock" } }

\* ------------------------------------------------------------ progress files
sourceMergeLockFile == "sourceMerge"
targetMergeLockFile == "targetMerge"
taggingLockFile == "tagging"
developmentPullMergeLockFile == "developmentPull"
developmentMergeLockFile == "developmentMerge"

\* the five lock files, in stage order
progressFile ==
    << sourceMergeLockFile, targetMergeLockFile, taggingLockFile,
       developmentPullMergeLockFile, developmentMergeLockFile >>

LockFiles == { progressFile[i] : i \in 1..Len(progressFile) }

\* the variable save file is a set: empty when the file does not exist,
\* otherwise holding its content
NoFile == {}

VARIABLES
    pc,         \* position of the process in main()
    conf,       \* the variable save file: NoFile or {the saved UsersVariables}
    locks,      \* the lock files that exist
    dir,        \* whether the progress directory exists
    v,          \* the module variables (remote .. tag, initialBranch)
    sampled,    \* run(): the lock files found missing when run() started
    local,      \* local variables of getVariables() and run()
    err,        \* the value the rejected promise carries to main()'s catch
    log,        \* this invocation's calls: <<function, operation, argument, result>>
    out,        \* this invocation's output lines
    git,        \* the repository: its tags, and whether unmerged files are present
    ok,         \* no helper call of this invocation has failed so far
    inv,        \* the invocation: its number, the progress files it found, resumed or
                \* not, and what is known of the invocations before it
    call        \* a call of a helper outside the command: its arguments, its result

vars == << pc, conf, locks, dir, v, sampled, local, err, log, out, git, ok, inv, call >>

\* ---------------------------------------------------------------- git helpers
\* Each helper is the set of outcomes its call can have.  The repository
\* keeps what the command reads back later: the tags and whether unmerged
\* files (merge conflicts) are present.

\* utils.ts checkoutBranch: true iff `git checkout branch` did not throw
checkoutBranch == BOOLEAN

\* utils.ts createAndCheckoutBranch: checkout of the branch to start from,
\* `git checkout -b` whose error is ignored, checkout of the new branch
\* (the delete of an existing branch of that name is commented out, so
\* `git checkout -b` throws when the branch exists and the old branch is the
\* one checked out).  branches: the local branches before the call.
createAndCheckoutBranch(branches, branch) ==
    LET made == IF branch \in branches THEN {branches}
                ELSE {branches, branches \cup {branch}}
    IN  { [res |-> FALSE, branches |-> branches] } \cup
        { [res |-> (branch \in m) /\ c, branches |-> m] : m \in made, c \in checkoutBranch }

\* utils.ts mergeBranch: resolves, or rejects with git's error; a merge that
\* stops on conflicts leaves unmerged files
mergeBranch(g) ==
    { [res |-> "ok", git |-> g],
      [res |-> "conflict", git |-> [g EXCEPT !.conflicts = TRUE]],
      [res |-> "error", git |-> g] }

\* utils.ts pullBranchFromRemote: "This will fail if there's a merge conflict
\* or a connection interruption"
pullBranchFromRemote(g) ==
    { [res |-> TRUE, git |-> g],
      [res |-> FALSE, git |-> [g EXCEPT !.conflicts = TRUE]],
      [res |-> FALSE, git |-> g] }

\* utils.ts doMergeConflictsExistOnCurrentBranch: the answer of
\* `git ls-files -u`, and true when the command throws
doMergeConflictsExistOnCurrentBranch(g) == {g.conflicts, TRUE}

\* utils.ts isBranchCleanWhenUpdatedFromRemote that does not look for merge
\* conflicts after the pull
isBranchCleanWhenUpdatedFromRemote_PullOnly(g) ==
    UNION { { [res |-> p.res, git |-> p.git,
               found |-> IF ~p.res THEN "pullFailed" ELSE IF c THEN "conflicts" ELSE "ok"] :
                c \in (IF p.res THEN doMergeConflictsExistOnCurrentBranch(p.git) ELSE {FALSE}) }
            : p \in pullBranchFromRemote(g) }

\* utils.ts isBranchCleanWhenUpdatedFromRemote: the pull succeeded and the
\* check found no merge conflicts (the check is made only after a successful
\* pull); `found` keeps which of the two it was
isBranchCleanWhenUpdatedFromRemote(g) ==
    UNION { { [res |-> p.res /\ ~c, git |-> p.git,
               found |-> IF ~p.res THEN "pullFailed" ELSE IF c THEN "conflicts" ELSE "ok"] :
                c \in (IF p.res THEN doMergeConflictsExistOnCurrentBranch(p.git) ELSE {FALSE}) }
            : p \in pullBranchFromRemote(g) }

\* utils.ts deleteLocalBranch
deleteLocalBranch(branches, branch) ==
    { [res |-> FALSE, branches |-> branches] } \cup
    IF branch \in branches THEN { [res |-> TRUE, branches |-> branches \ {branch}] } ELSE {}

\* the repository does not keep its local branches between the calls: when a
\* branch is created or deleted it may or may not exist
LocalBranches(branch) == SUBSET {branch}

\* utils.ts createTag
createTag(g, t) ==
    { [res |-> TRUE, git |-> [g EXCEPT !.tags = @ \cup {t}]],
      [res |-> FALSE, git |-> g] }

\* the check of the working directory that does not see unmerged files
isWorkingDirectoryClean_IgnoresUnmerged(g) == {TRUE, FALSE}

\* utils.ts isWorkingDirectoryClean: `git status --porcelain` printed
\* nothing; unmerged files are printed
isWorkingDirectoryClean(g) == IF g.conflicts THEN {FALSE} ELSE {TRUE, FALSE}

\* utils.ts getCurrentBranch: the branch the operator is on, '' when the
\* command throws
getCurrentBranch == InitialBranches \cup {Empty}

\* ------------------------------------------------------------------ logging
Ev(fn, op, arg, res) == <<fn, op, arg, res>>

Res(b) == IF b THEN "ok" ELSE "fail"

\* the answer of the check for merge conflicts
Found(c) == IF c THEN "conflicts" ELSE "clean"

\* the module variables of a freshly started process
InitialVariables ==
    [ remote |-> Empty, sourceBranch |-> Empty, targetBranch |-> Empty,
      developmentBranch |-> Empty, packageVersion |-> Empty,
      nextPackageVersion |-> Empty, tag |-> Empty, initialBranch |-> Empty ]

InitialLocal == [ currentPackageVersion |-> Empty, targetPackageVersion |-> Empty,
                  sourcePackageVersion |-> Empty, bad |-> 0 ]

releaseBranch == createReleaseBranchName(v.tag)

developmentMergeBranch == createDevelopmentMergeBranchName(v.targetBranch, v.developmentBranch)

\* no helper is called outside the command
NoCall == [fn |-> "none", args |-> << >>, done |-> TRUE, result |-> << >>]

\* the state of the process after its module is loaded
Constructed ==
    /\ pc = "isGitInstalled"
    /\ conf = NoFile
    /\ locks = {}
    /\ dir = FALSE
    /\ v = InitialVariables
    /\ sampled = {}
    /\ local = InitialLocal
    /\ err = <<"">>
    /\ log = << >>
    /\ out = << >>
    /\ git = [tags |-> {}, conflicts |-> FALSE]
    /\ ok = TRUE
    /\ inv = [n |-> 1, conf |-> NoFile, locks |-> {}, resumed |-> FALSE,
             killed |-> FALSE, before |-> {}, negotiatedOn |-> Empty,
             conflicts |-> FALSE]

Init == Constructed /\ call = NoCall

\* a rejected promise travels to the catch of main()
Reject(e) == pc' = "catch" /\ err' = e

\* ------------------------------------------------------ checkPrerequisites
CheckGitInstalled ==
    /\ pc = "isGitInstalled"
    /\ \E r \in BOOLEAN :
        /\ log' = Append(log, Ev("checkPrerequisites", "isGitInstalled", Empty, Res(r)))
        /\ ok' = (ok /\ r)
        /\ IF r THEN pc' = "isCurrentDirectoryGitRepo" /\ err' = err
                ELSE Reject(<<"GitNotInstalled">>)
    /\ UNCHANGED << conf, locks, dir, v, sampled, local, out, git, inv, call >>

\* the repository check without the return of its rejection
CheckCurrentDirectoryGitRepo_Continues ==
    /\ pc = "isCurrentDirectoryGitRepo"
    /\ \E r \in BOOLEAN :
        /\ log' = Append(log, Ev("checkPrerequisites", "isCurrentDirectoryGitRepo", Empty, Res(r)))
        /\ ok' = (ok /\ r)
        /\ pc' = "isWorkingDirectoryClean" /\ err' = err
    /\ UNCHANGED << conf, locks, dir, v, sampled, local, out, git, inv, call >>

CheckCurrentDirectoryGitRepo ==
    /\ pc = "isCurrentDirectoryGitRepo"
    /\ \E r \in BOOLEAN :
        /\ log' = Append(log, Ev("checkPrerequisites", "isCurrentDirectoryGitRepo", Empty, Res(r)))
        /\ ok' = (ok /\ r)
        /\ IF r THEN pc' = "isWorkingDirectoryClean" /\ err' = err
                ELSE Reject(<<"CurrentDirectoryNotGitRepo">>)
    /\ UNCHANGED << conf, locks, dir, v, sampled, local, out, git, inv, call >>

\* the last check, and the creation of the progress directory
CheckWorkingDirectoryClean ==
    /\ pc = "isWorkingDirectoryClean"
    /\ \E r \in isWorkingDirectoryClean(git) :
        /\ log' = Append(log, Ev("checkPrerequisites", "isWorkingDirectoryClean", Empty, Res(r)))
        /\ ok' = (ok /\ r)
        /\ IF r THEN pc' = "getVariables" /\ err' = err /\ dir' = TRUE
                ELSE Reject(<<"WorkspaceNotClean">>) /\ dir' = dir
    /\ UNCHANGED << conf, locks, v, sampled, local, out, git, inv, call >>

\* ------------------------------------------------------------ progress files
\* saveUsersVariables: the seven variables written to the variable save file
SavedVariables(x) ==
    [ remote |-> x.remote, sourceBranch |-> x.sourceBranch,
      targetBranch |-> x.targetBranch, developmentBranch |-> x.developmentBranch,
      packageVersion |-> x.packageVersion, nextPackageVersion |-> x.nextPackageVersion,
      tag |-> x.tag ]

\* loadUsersVariables that leaves the tag unset
LoadedVariables_NoTag(x, file) ==
    [ x EXCEPT !.remote = file.remote, !.sourceBranch = file.sourceBranch,
               !.targetBranch = file.targetBranch,
               !.developmentBranch = file.developmentBranch,
               !.packageVersion = file.packageVersion,
               !.nextPackageVersion = file.nextPackageVersion ]

\* loadUsersVariables: the seven variables read back; initialBranch is not saved
LoadedVariables(x, file) ==
    [ x EXCEPT !.remote = file.remote, !.sourceBranch = file.sourceBranch,
               !.targetBranch = file.targetBranch,
               !.developmentBranch = file.developmentBranch,
               !.packageVersion = file.packageVersion,
               !.nextPackageVersion = file.nextPackageVersion,
               !.tag = file.tag ]

\* resetDeploy without the unlink of the variable save file
resetDeploy_KeepsSaveFile == conf' = conf /\ locks' = {}

\* resetDeploy without the unlink of the lock files
resetDeploy_KeepsLockFiles == conf' = NoFile /\ locks' = locks

\* resetDeploy: unlink the variable save file and the five lock files
resetDeploy == conf' = NoFile /\ locks' = {}

\* unlinkSync: throws when the file is missing or cannot be removed
\* (failing: the files whose removal the file system refuses)
unlinkSync(files, fileName, failing) ==
    IF fileName \in files /\ fileName \notin failing
      THEN [threw |-> FALSE, files |-> files \ {fileName}]
      ELSE [threw |-> TRUE, files |-> files]

\* the variable save file, as a file of the progress directory
variableSaveFile == "variableSave"

\* the six files in the order resetDeploy unlinks them
ResetOrder == <<variableSaveFile>> \o progressFile

\* the six unlinks without try and catch: the first throw ends the function
RECURSIVE UnlinkEach_StopsAtThrow(_, _, _)
UnlinkEach_StopsAtThrow(names, files, failing) ==
    IF names = << >> THEN [raised |-> FALSE, files |-> files]
    ELSE LET u == unlinkSync(files, Head(names), failing)
         IN  IF u.threw THEN [raised |-> TRUE, files |-> u.files]
             ELSE UnlinkEach_StopsAtThrow(Tail(names), u.files, failing)

\* resetDeploy on the files of the progress directory: six times
\* try { unlinkSync(file) } catch {}, whatever each unlink does
RECURSIVE UnlinkEach(_, _, _)
UnlinkEach(names, files, failing) ==
    IF names = << >> THEN [raised |-> FALSE, files |-> files]
    ELSE LET u == unlinkSync(files, Head(names), failing)
         IN  UnlinkEach(Tail(names), u.files, failing)

\* the test made on the lock files instead of the variable save file
canThePreviousProcessBeContinued_LockFile == locks # {}

canThePreviousProcessBeContinued == conf # NoFile

\* ------------------------------------------------------------ getVariables
GV == "getVariables"

\* the question whether to continue the previous process
AskContinue ==
    /\ pc = "getVariables"
    /\ canThePreviousProcessBeContinued
    /\ \E answer \in BOOLEAN :
        /\ log' = Append(log, Ev(GV, "prompt", <<"ContinuePreviousProcess">>, Res(answer)))
        /\ IF answer
              THEN /\ out' = Append(out, <<"Resuming">>)
                   /\ v' = LoadedVariables(v, CHOOSE file \in conf : TRUE)
                   /\ inv' = [inv EXCEPT !.resumed = TRUE]
                   /\ pc' = "run"
                   /\ UNCHANGED << conf, locks >>
              ELSE /\ resetDeploy
                   /\ pc' = "askRemote"
                   /\ UNCHANGED << out, v, inv >>
    /\ UNCHANGED << dir, sampled, local, err, git, ok, call >>

AskRemote ==
    /\ \/ pc = "getVariables" /\ ~canThePreviousProcessBeContinued
       \/ pc = "askRemote"
    /\ \E answer \in RemoteInputs :
        /\ log' = Append(log, Ev(GV, "prompt", <<"GitRemoteToUse">>, "ok"))
        /\ v' = [v EXCEPT !.remote = answer]
        /\ out' = Append(out, <<"CheckRemote", answer>>)
    /\ pc' = "checkRemote"
    /\ UNCHANGED << conf, locks, dir, sampled, local, err, git, ok, inv, call >>

\* checkIfRemoteExists(remote [, branch]): the part after its status line
checkIfRemoteExists(branch, next) ==
    \E r \in BOOLEAN :
        /\ log' = Append(log, Ev(GV, "doesRemoteExist", branch, Res(r)))
        /\ ok' = (ok /\ r)
        /\ IF r THEN /\ out' = Append(out, <<"Confirmed">>)
                     /\ pc' = next
                     /\ err' = err
                ELSE /\ out' = out
                     /\ Reject(IF branch = Empty
                                  THEN <<"RemoteDoesNotExist", v.remote>>
                                  ELSE <<"BranchDoesNotExist", branch>>)

CheckRemote ==
    /\ pc = "checkRemote"
    /\ checkIfRemoteExists(Empty, "getCurrentBranch")
    /\ UNCHANGED << conf, locks, dir, v, sampled, local, git, inv, call >>

GetInitialBranch ==
    /\ pc = "getCurrentBranch"
    /\ \E b \in getCurrentBranch :
        /\ log' = Append(log, Ev(GV, "getCurrentBranch", Empty, Res(b # Empty)))
        /\ ok' = (ok /\ b # Empty)
        /\ v' = [v EXCEPT !.initialBranch = b]
    /\ pc' = "askSource"
    /\ UNCHANGED << conf, locks, dir, sampled, local, err, out, git, inv, call >>

AskSource ==
    /\ pc = "askSource"
    /\ \E answer \in SourceInputs :
        /\ log' = Append(log, Ev(GV, "prompt", <<"SourceBranchToUse">>, "ok"))
        /\ v' = [v EXCEPT !.sourceBranch = answer]
        /\ out' = Append(out, <<"CheckBranch", answer, v.remote>>)
    /\ pc' = "checkSource"
    /\ UNCHANGED << conf, locks, dir, sampled, local, err, git, ok, inv, call >>

CheckSource ==
    /\ pc = "checkSource"
    /\ checkIfRemoteExists(v.sourceBranch, "askTarget")
    /\ UNCHANGED << conf, locks, dir, v, sampled, local, git, inv, call >>

\* the target prompt without the comparison with the source branch
AskTarget_NoComparison ==
    /\ pc = "askTarget"
    /\ \E answer \in TargetInputs :
        /\ log' = Append(log, Ev(GV, "prompt", <<"TargetBranchToUse">>, "ok"))
        /\ v' = [v EXCEPT !.targetBranch = answer]
        /\ out' = Append(out, <<"CheckBranch", answer, v.remote>>)
        /\ pc' = "checkTarget"
        /\ err' = err
    /\ UNCHANGED << conf, locks, dir, sampled, local, git, ok, inv, call >>

AskTarget ==
    /\ pc = "askTarget"
    /\ \E answer \in TargetInputs :
        /\ log' = Append(log, Ev(GV, "prompt", <<"TargetBranchToUse">>, "ok"))
        /\ v' = [v EXCEPT !.targetBranch = answer]
        /\ IF answer = v.sourceBranch
              THEN /\ Reject(<<"TargetAndSourceBranchesMustDiffer">>)
                   /\ out' = out
              ELSE /\ out' = Append(out, <<"CheckBranch", answer, v.remote>>)
                   /\ pc' = "checkTarget"
                   /\ err' = err
    /\ UNCHANGED << conf, locks, dir, sampled, local, git, ok, inv, call >>

CheckTarget ==
    /\ pc = "checkTarget"
    /\ checkIfRemoteExists(v.targetBranch, "askDevelopment")
    /\ UNCHANGED << conf, locks, dir, v, sampled, local, git, inv, call >>

AskDevelopment ==
    /\ pc = "askDevelopment"
    /\ \E answer \in DevelopmentInputs :
        /\ log' = Append(log, Ev(GV, "prompt", <<"DevelopmentBranchToUse">>, "ok"))
        /\ v' = [v EXCEPT !.developmentBranch = answer]
        /\ IF answer = v.targetBranch
              THEN /\ Reject(<<"DevelopmentAndTargetBranchesMustDiffer">>)
                   /\ out' = out
              ELSE /\ err' = err
                   /\ IF answer = v.sourceBranch
                         THEN /\ out' = out \o << <<"AlreadyConfirmedBranchExists", answer>>,
                                                  <<"FetchingTargetBranch", v.targetBranch>> >>
                              /\ pc' = "checkoutTarget"
                         ELSE /\ out' = Append(out, <<"CheckBranch", answer, v.remote>>)
                              /\ pc' = "checkDevelopment"
    /\ UNCHANGED << conf, locks, dir, sampled, local, git, ok, inv, call >>

CheckDevelopment ==
    /\ pc = "checkDevelopment"
    /\ \E r \in BOOLEAN :
        /\ log' = Append(log, Ev(GV, "doesRemoteExist", v.developmentBranch, Res(r)))
        /\ ok' = (ok /\ r)
        /\ IF r THEN /\ out' = out \o << <<"Confirmed">>,
                                         <<"FetchingTargetBranch", v.targetBranch>> >>
                     /\ pc' = "checkoutTarget"
                     /\ err' = err
                ELSE /\ out' = out
                     /\ Reject(<<"BranchDoesNotExist", v.developmentBranch>>)
    /\ UNCHANGED << conf, locks, dir, v, sampled, local, git, inv, call >>

\* checkout of a branch during negotiation
NegotiationCheckout(branch, next) ==
    \E c \in checkoutBranch :
        /\ log' = Append(log, Ev(GV, "checkout", branch, Res(c)))
        /\ ok' = (ok /\ c)
        /\ IF c THEN pc' = next /\ err' = err
                    ELSE Reject(<<"CouldNotCheckOutBranch", branch>>)

\* pull of a branch during negotiation, and the check for merge conflicts
NegotiationPull(branch, next) ==
    \E c \in isBranchCleanWhenUpdatedFromRemote(git) :
        /\ log' = Append(log, Ev(GV, "isBranchCleanWhenUpdatedFromRemote", branch, c.found))
        /\ ok' = (ok /\ c.res)
        /\ git' = c.git
        /\ IF c.res THEN /\ out' = Append(out, <<"Done">>)
                         /\ pc' = next
                         /\ err' = err
                    ELSE /\ out' = out
                         /\ Reject(<<"MergeConflictsOnPullToFix", branch>>)

CheckoutTarget ==
    /\ pc = "checkoutTarget"
    /\ NegotiationCheckout(v.targetBranch, "pullTarget")
    /\ UNCHANGED << conf, locks, dir, v, sampled, local, out, git, inv, call >>

PullTarget ==
    /\ pc = "pullTarget"
    /\ NegotiationPull(v.targetBranch, "targetVersion")
    /\ UNCHANGED << conf, locks, dir, v, sampled, local, inv, call >>

\* getRepositoryVersion: the version in the version file, or a rejection
ReadTargetVersion ==
    /\ pc = "targetVersion"
    /\ \/ \E ver \in TargetRepoVersions :
            /\ log' = Append(log, Ev(GV, "getRepositoryVersion", Empty, "ok"))
            /\ local' = [local EXCEPT !.targetPackageVersion = ver]
            /\ out' = Append(out, <<"FetchingSourceBranch", v.sourceBranch>>)
            /\ pc' = "checkoutSource"
            /\ UNCHANGED << err, ok >>
       \/ /\ log' = Append(log, Ev(GV, "getRepositoryVersion", Empty, "fail"))
          /\ ok' = FALSE
          /\ Reject(<<"NoVersionFound">>)
          /\ UNCHANGED << local, out >>
    /\ UNCHANGED << conf, locks, dir, v, sampled, git, inv, call >>

CheckoutSource ==
    /\ pc = "checkoutSource"
    /\ NegotiationCheckout(v.sourceBranch, "pullSource")
    /\ UNCHANGED << conf, locks, dir, v, sampled, local, out, git, inv, call >>

PullSource ==
    /\ pc = "pullSource"
    /\ NegotiationPull(v.sourceBranch, "sourceVersion")
    /\ UNCHANGED << conf, locks, dir, v, sampled, local, inv, call >>

\* while (!version || !semverRegex.test(version))
NeedsVersion(version) == version = Empty \/ ~semverRegex(version)

ReadSourceVersion ==
    /\ pc = "sourceVersion"
    /\ \/ \E ver \in SourceRepoVersions :
            /\ log' = Append(log, Ev(GV, "getRepositoryVersion", Empty, "ok"))
            /\ local' = [local EXCEPT !.sourcePackageVersion = ver]
            /\ out' = Append(out, <<"SourceAndTargetVersion", ver, local.targetPackageVersion>>)
            /\ pc' = "askVersion"
            /\ UNCHANGED << err, ok >>
       \/ /\ log' = Append(log, Ev(GV, "getRepositoryVersion", Empty, "fail"))
          /\ ok' = FALSE
          /\ Reject(<<"NoVersionFound">>)
          /\ UNCHANGED << local, out >>
    /\ UNCHANGED << conf, locks, dir, v, sampled, git, inv, call >>

\* one round of the release version loop: the format error for the previous
\* answer, the prompt, and what follows a well formatted answer up to the
\* next await
AskVersion ==
    /\ pc = "askVersion"
    /\ NeedsVersion(v.packageVersion)
    /\ \E answer \in VersionInputs :
        LET shown == IF v.packageVersion # Empty
                        THEN Append(out, <<"VersionFormatWrong", v.packageVersion>>)
                        ELSE out
        IN  /\ NeedsVersion(answer) => local.bad < MaxBadInputs
            /\ log' = Append(log, Ev(GV, "prompt", <<"VersionNumberToUse">>, "ok"))
            /\ IF NeedsVersion(answer)
                  THEN /\ v' = [v EXCEPT !.packageVersion = answer]
                       /\ local' = [local EXCEPT !.bad = @ + 1]
                       /\ out' = shown
                       /\ pc' = "askVersion"
                  ELSE /\ v' = [v EXCEPT !.packageVersion = answer,
                                         !.tag = createReleaseTag(answer)]
                       /\ local' = local
                       /\ out' = Append(shown, <<"CheckingTagUniqueness">>)
                       /\ pc' = "doesTagExist"
    /\ UNCHANGED << conf, locks, dir, sampled, err, git, ok, inv, call >>

\* utils.ts doesTagExist that answers false when git throws
doesTagExist_FalseOnError(g, t) == {t \in g.tags, FALSE}

\* utils.ts doesTagExist: whether `git tag -l` lists the tag after the fetch
\* of all tags, and true when either command throws
doesTagExist(g, t) == {t \in g.tags, TRUE}

CheckTagUniqueness ==
    /\ pc = "doesTagExist"
    /\ \E exists \in doesTagExist(git, v.tag) :
        /\ log' = Append(log, Ev(GV, "doesTagExist", v.tag, Res(~exists)))
        /\ ok' = (ok /\ ~exists)
        /\ IF exists THEN /\ Reject(<<"TagExists", v.tag>>)
                          /\ out' = out
                     ELSE /\ out' = Append(out, <<"Confirmed">>)
                          /\ pc' = "askNextVersion"
                          /\ err' = err
    /\ UNCHANGED << conf, locks, dir, v, sampled, local, git, inv, call >>

\* one round of the next version loop; a well formatted answer is followed
\* by saveUsersVariables
AskNextVersion ==
    /\ pc = "askNextVersion"
    /\ NeedsVersion(v.nextPackageVersion)
    /\ \E answer \in NextVersionInputs :
        /\ NeedsVersion(answer) => local.bad < MaxBadInputs
        /\ log' = Append(log, Ev(GV, "prompt", <<"NextVersionToUse">>, "ok"))
        /\ out' = IF v.nextPackageVersion # Empty
                     THEN Append(out, <<"VersionFormatWrong", v.nextPackageVersion>>)
                     ELSE out
        /\ v' = [v EXCEPT !.nextPackageVersion = answer]
        /\ IF NeedsVersion(answer)
              THEN /\ local' = [local EXCEPT !.bad = @ + 1]
                   /\ pc' = "askNextVersion"
                   /\ conf' = conf
              ELSE /\ local' = local
                   /\ conf' = {SavedVariables(v')}
                   /\ pc' = "run"
    /\ UNCHANGED << locks, dir, sampled, err, git, ok, inv, call >>

\* --------------------------------------------------------------------- run
\* touch that leaves the file missing
touch_Nothing(files, fileName) == files

\* utils.ts touch: the file exists afterwards
touch(files, fileName) == files \cup {fileName}

\* utils.ts pushToRemote / deleteRemoteBranch: whether `git push` did not throw
pushToRemote == BOOLEAN

\* one call of run(): its log entry and its success
Call(op, arg, res, good) ==
    /\ log' = Append(log, Ev("run", op, arg, res))
    /\ ok' = (ok /\ good)

\* a checkout whose result run() does not look at
RunCheckout(branch) ==
    \E c \in checkoutBranch : Call("checkout", branch, "ignored", c)

\* the nested tests without the outermost one: the developmentMerge lock
\* file is not looked at
ResumePoint_IgnoresDevelopmentMerge(missing) ==
    IF developmentPullMergeLockFile \notin missing
      THEN [unlink |-> {developmentPullMergeLockFile},
            line |-> << <<"FetchingDevelopmentBranch", v.developmentBranch>> >>,
            next |-> "checkoutDevelopment"]
    ELSE IF taggingLockFile \notin missing
      THEN [unlink |-> {taggingLockFile}, line |-> << >>,
            next |-> "checkoutTargetToPushTag"]
    ELSE IF targetMergeLockFile \notin missing
      THEN [unlink |-> {targetMergeLockFile},
            line |-> << <<"AssumingBranchMerged", releaseBranch, v.targetBranch>> >>,
            next |-> "deleteRemoteBranch"]
    ELSE IF sourceMergeLockFile \notin missing
      THEN [unlink |-> {sourceMergeLockFile}, line |-> << >>,
            next |-> "checkoutRelease"]
    ELSE [unlink |-> {},
          line |-> << <<"CreatingReleaseBranch", releaseBranch, v.targetBranch>> >>,
          next |-> "createReleaseBranch"]

\* the nested tests with the push of target tried again when the
\* targetMerge lock file is found
ResumePoint_RetriesTargetPush(missing) ==
    IF developmentMergeLockFile \notin missing
      THEN [unlink |-> {developmentMergeLockFile}, line |-> << >>,
            next |-> "checkoutDevelopmentMerge"]
    ELSE IF developmentPullMergeLockFile \notin missing
      THEN [unlink |-> {developmentPullMergeLockFile},
            line |-> << <<"FetchingDevelopmentBranch", v.developmentBranch>> >>,
            next |-> "checkoutDevelopment"]
    ELSE IF taggingLockFile \notin missing
      THEN [unlink |-> {taggingLockFile}, line |-> << >>,
            next |-> "checkoutTargetToPushTag"]
    ELSE IF targetMergeLockFile \notin missing
      THEN [unlink |-> {targetMergeLockFile},
            line |-> << <<"PushingToRemote", v.targetBranch>> >>,
            next |-> "pushTarget"]
    ELSE IF sourceMergeLockFile \notin missing
      THEN [unlink |-> {sourceMergeLockFile}, line |-> << >>,
            next |-> "checkoutRelease"]
    ELSE [unlink |-> {},
          line |-> << <<"CreatingReleaseBranch", releaseBranch, v.targetBranch>> >>,
          next |-> "createReleaseBranch"]

\* the nested tests made from the first stage to the last
ResumePoint_FirstStageFirst(missing) ==
    IF sourceMergeLockFile \notin missing
      THEN [unlink |-> {sourceMergeLockFile}, line |-> << >>,
            next |-> "checkoutRelease"]
    ELSE IF targetMergeLockFile \notin missing
      THEN [unlink |-> {targetMergeLockFile},
            line |-> << <<"AssumingBranchMerged", releaseBranch, v.targetBranch>> >>,
            next |-> "deleteRemoteBranch"]
    ELSE IF taggingLockFile \notin missing
      THEN [unlink |-> {taggingLockFile}, line |-> << >>,
            next |-> "checkoutTargetToPushTag"]
    ELSE IF developmentPullMergeLockFile \notin missing
      THEN [unlink |-> {developmentPullMergeLockFile},
            line |-> << <<"FetchingDevelopmentBranch", v.developmentBranch>> >>,
            next |-> "checkoutDevelopment"]
    ELSE IF developmentMergeLockFile \notin missing
      THEN [unlink |-> {developmentMergeLockFile}, line |-> << >>,
            next |-> "checkoutDevelopmentMerge"]
    ELSE [unlink |-> {},
          line |-> << <<"CreatingReleaseBranch", releaseBranch, v.targetBranch>> >>,
          next |-> "createReleaseBranch"]

\* The nested tests of the lock files at the head of run(): from the set of
\* lock files found missing, the lock file that is unlinked (if any), the
\* status line written and the first call that is made.
ResumePoint(missing) ==
    IF developmentMergeLockFile \notin missing
      THEN [unlink |-> {developmentMergeLockFile}, line |-> << >>,
            next |-> "checkoutDevelopmentMerge"]
    ELSE IF developmentPullMergeLockFile \notin missing
      THEN [unlink |-> {developmentPullMergeLockFile},
            line |-> << <<"FetchingDevelopmentBranch", v.developmentBranch>> >>,
            next |-> "checkoutDevelopment"]
    ELSE IF taggingLockFile \notin missing
      THEN [unlink |-> {taggingLockFile}, line |-> << >>,
            next |-> "checkoutTargetToPushTag"]
    ELSE IF targetMergeLockFile \notin missing
      THEN [unlink |-> {targetMergeLockFile},
            line |-> << <<"AssumingBranchMerged", releaseBranch, v.targetBranch>> >>,
            next |-> "deleteRemoteBranch"]
    ELSE IF sourceMergeLockFile \notin missing
      THEN [unlink |-> {sourceMergeLockFile}, line |-> << >>,
            next |-> "checkoutRelease"]
    ELSE [unlink |-> {},
          line |-> << <<"CreatingReleaseBranch", releaseBranch, v.targetBranch>> >>,
          next |-> "createReleaseBranch"]

\* run() up to its first await
RunStart ==
    /\ pc = "run"
    /\ sampled' = LockFiles \ locks
    /\ LET p == ResumePoint(sampled')
       IN  /\ locks' = locks \ p.unlink
           /\ out' = out \o p.line
           /\ pc' = p.next
    /\ UNCHANGED << conf, dir, v, local, err, log, git, ok, inv, call >>

CreateReleaseBranch ==
    /\ pc = "createReleaseBranch"
    /\ \E b \in LocalBranches(releaseBranch) :
       \E c \in { x.res : x \in createAndCheckoutBranch(b, releaseBranch) } :
        /\ Call("createAndCheckoutBranch", releaseBranch, Res(c), c)
        /\ IF c THEN /\ out' = Append(out, <<"Merge", v.sourceBranch, releaseBranch>>)
                         /\ pc' = "mergeSource"
                         /\ err' = err
                    ELSE /\ out' = out
                         /\ Reject(<<"CouldNotCreateBranch", releaseBranch>>)
    /\ UNCHANGED << conf, locks, dir, v, sampled, local, git, inv, call >>

\* the source merge made a second time when the first has failed
MergeSource_Retries ==
    /\ pc = "mergeSource"
    /\ \E m \in mergeBranch(git) :
        /\ Call("merge", v.sourceBranch, m.res, m.res = "ok")
        /\ git' = m.git
        /\ pc' = IF m.res = "ok" THEN "checkoutRelease"
                 ELSE IF \E i \in 1..Len(log) : log[i][2] = "merge" THEN "sourceMergeFailed"
                 ELSE "mergeSource"
    /\ UNCHANGED << conf, locks, dir, v, sampled, local, err, out, inv, call >>

MergeSource ==
    /\ pc = "mergeSource"
    /\ \E m \in mergeBranch(git) :
        /\ Call("merge", v.sourceBranch, m.res, m.res = "ok")
        /\ git' = m.git
        /\ pc' = IF m.res = "ok" THEN "checkoutRelease" ELSE "sourceMergeFailed"
    /\ UNCHANGED << conf, locks, dir, v, sampled, local, err, out, inv, call >>

\* the catch of the source merge without the lock file
SourceMergeFailed_NoLock ==
    /\ pc = "sourceMergeFailed"
    /\ \E c \in doMergeConflictsExistOnCurrentBranch(git) :
        /\ Call("doMergeConflictsExistOnCurrentBranch", Empty, Found(c), TRUE)
        /\ locks' = locks
        /\ IF c THEN Reject(<<"FixReleaseBranchMergeConflicts", releaseBranch>>)
                ELSE Reject(<<"GitError">>)
    /\ UNCHANGED << conf, dir, v, sampled, local, out, git, inv, call >>

\* the catch of the source merge
\* the catch of the source merge writing the lock file whatever the check finds
SourceMergeFailed_AlwaysLock ==
    /\ pc = "sourceMergeFailed"
    /\ \E c \in doMergeConflictsExistOnCurrentBranch(git) :
        /\ Call("doMergeConflictsExistOnCurrentBranch", Empty, Found(c), TRUE)
        /\ locks' = touch(locks, sourceMergeLockFile)
        /\ IF c THEN Reject(<<"FixReleaseBranchMergeConflicts", releaseBranch>>)
                ELSE Reject(<<"GitError">>)
    /\ UNCHANGED << conf, dir, v, sampled, local, out, git, inv, call >>

SourceMergeFailed ==
    /\ pc = "sourceMergeFailed"
    /\ \E c \in doMergeConflictsExistOnCurrentBranch(git) :
        /\ Call("doMergeConflictsExistOnCurrentBranch", Empty, Found(c), TRUE)
        /\ IF c THEN /\ locks' = touch(locks, sourceMergeLockFile)
                     /\ Reject(<<"FixReleaseBranchMergeConflicts", releaseBranch>>)
                ELSE /\ locks' = locks
                     /\ Reject(<<"GitError">>)
    /\ UNCHANGED << conf, dir, v, sampled, local, out, git, inv, call >>

CheckoutRelease ==
    /\ pc = "checkoutRelease"
    /\ RunCheckout(releaseBranch)
    /\ pc' = "readReleaseVersion"
    /\ UNCHANGED << conf, locks, dir, v, sampled, local, err, out, git, inv, call >>

\* the version bump made whatever version was read
ReadVersion_AlwaysUpdates(wanted, updateLine, update, skip) ==
    \/ \E ver \in RepoVersions :
        /\ Call("getRepositoryVersion", ver, "ok", TRUE)
        /\ local' = [local EXCEPT !.currentPackageVersion = ver]
        /\ err' = err
        /\ out' = Append(out, updateLine) /\ pc' = update
    \/ /\ Call("getRepositoryVersion", Empty, "fail", FALSE)
       /\ Reject(<<"NoVersionFound">>)
       /\ UNCHANGED << local, out >>

\* getRepositoryVersion and the comparison with the wanted version; the log
\* keeps the version that was read
ReadVersion(wanted, updateLine, update, skip) ==
    \/ \E ver \in RepoVersions :
        /\ Call("getRepositoryVersion", ver, "ok", TRUE)
        /\ local' = [local EXCEPT !.currentPackageVersion = ver]
        /\ err' = err
        /\ IF ver # wanted
              THEN out' = Append(out, updateLine) /\ pc' = update
              ELSE out' = out \o skip.line /\ pc' = skip.next
    \/ /\ Call("getRepositoryVersion", Empty, "fail", FALSE)
       /\ Reject(<<"NoVersionFound">>)
       /\ UNCHANGED << local, out >>

\* updateRepositoryVersion: resolves, or rejects with the file error
UpdateVersion(wanted, next) ==
    \/ /\ Call("updateRepositoryVersion", wanted, "ok", TRUE)
       /\ pc' = next
       /\ err' = err
    \/ /\ Call("updateRepositoryVersion", wanted, "fail", FALSE)
       /\ Reject(<<"FileError">>)

\* the version bump without its commit
Commit_Skipped(line, next) ==
    /\ UNCHANGED << log, ok >>
    /\ out' = out \o line
    /\ pc' = next

\* commitToBranch, result not looked at
Commit(line, next) ==
    /\ \E r \in BOOLEAN : Call("commit", Empty, "ignored", r)
    /\ out' = out \o line
    /\ pc' = next

MergeReleaseLine == << <<"Merge", releaseBranch, v.targetBranch>> >>

ReadReleaseVersion ==
    /\ pc = "readReleaseVersion"
    /\ ReadVersion(v.packageVersion,
                   <<"ReleaseBranchPackageVersionUpdate", v.packageVersion, releaseBranch>>,
                   "updateReleaseVersion",
                   [line |-> << <<"NoPackageUpdateNeeded">> >> \o MergeReleaseLine,
                    next |-> "checkoutTargetToMerge"])
    /\ UNCHANGED << conf, locks, dir, v, sampled, git, inv, call >>

UpdateReleaseVersion ==
    /\ pc = "updateReleaseVersion"
    /\ UpdateVersion(v.packageVersion, "commitRelease")
    /\ UNCHANGED << conf, locks, dir, v, sampled, local, out, git, inv, call >>

CommitRelease ==
    /\ pc = "commitRelease"
    /\ Commit(<< <<"Done">> >> \o MergeReleaseLine, "checkoutTargetToMerge")
    /\ UNCHANGED << conf, locks, dir, v, sampled, local, err, git, inv, call >>

CheckoutTargetToMerge ==
    /\ pc = "checkoutTargetToMerge"
    /\ RunCheckout(v.targetBranch)
    /\ pc' = "mergeRelease"
    /\ UNCHANGED << conf, locks, dir, v, sampled, local, err, out, git, inv, call >>

\* try { await mergeBranch(releaseBranch) } catch {}
MergeRelease ==
    /\ pc = "mergeRelease"
    /\ \E m \in mergeBranch(git) :
        /\ Call("merge", releaseBranch, "ignored", m.res = "ok")
        /\ git' = m.git
    /\ out' = Append(out, <<"PushingToRemote", v.targetBranch>>)
    /\ pc' = "pushTarget"
    /\ UNCHANGED << conf, locks, dir, v, sampled, local, err, inv, call >>

PushTarget ==
    /\ pc = "pushTarget"
    /\ \E r \in pushToRemote :
        /\ Call("push", v.targetBranch, Res(r), r)
        /\ IF r THEN /\ out' = Append(out, <<"Done">>)
                     /\ pc' = "deleteLocalBranch"
                ELSE /\ out' = out \o << <<"">>,
                                         <<"CannotPushBranch", v.targetBranch, releaseBranch>> >>
                     /\ pc' = "checkoutReleaseToPush"
    /\ UNCHANGED << conf, locks, dir, v, sampled, local, err, git, inv, call >>

CheckoutReleaseToPush ==
    /\ pc = "checkoutReleaseToPush"
    /\ RunCheckout(releaseBranch)
    /\ out' = Append(out, <<"PushingToRemote", releaseBranch>>)
    /\ pc' = "pushRelease"
    /\ UNCHANGED << conf, locks, dir, v, sampled, local, err, git, inv, call >>

\* the release branch is pushed with its upstream set, the lock file is
\* written and the operator is asked to have someone merge
PushRelease ==
    /\ pc = "pushRelease"
    /\ \E r \in pushToRemote : Call("pushUpstream", releaseBranch, "ignored", r)
    /\ out' = Append(out, <<"Done">>)
    /\ locks' = touch(locks, targetMergeLockFile)
    /\ Reject(<<"HaveSomeoneMerge", releaseBranch>>)
    /\ UNCHANGED << conf, dir, v, sampled, local, git, inv, call >>

DeleteRemoteBranch ==
    /\ pc = "deleteRemoteBranch"
    /\ \E r \in pushToRemote : Call("deleteRemoteBranch", releaseBranch, "ignored", r)
    /\ pc' = "deleteLocalBranch"
    /\ UNCHANGED << conf, locks, dir, v, sampled, local, err, out, git, inv, call >>

DeleteLocalBranch ==
    /\ pc = "deleteLocalBranch"
    /\ \E b \in LocalBranches(releaseBranch) :
       \E d \in deleteLocalBranch(b, releaseBranch) :
        Call("deleteLocalBranch", releaseBranch, "ignored", d.res)
    /\ out' = Append(out, <<"FetchingBranchFromRemote", v.targetBranch>>)
    /\ pc' = "checkoutTargetToTag"
    /\ UNCHANGED << conf, locks, dir, v, sampled, local, err, git, inv, call >>

CheckoutTargetToTag ==
    /\ pc = "checkoutTargetToTag"
    /\ RunCheckout(v.targetBranch)
    /\ pc' = "pullTargetToTag"
    /\ UNCHANGED << conf, locks, dir, v, sampled, local, err, out, git, inv, call >>

PullTargetToTag ==
    /\ pc = "pullTargetToTag"
    /\ \E p \in pullBranchFromRemote(git) :
        /\ Call("pull", v.targetBranch, "ignored", p.res)
        /\ git' = p.git
    /\ out' = out \o << <<"Done">>, <<"CreatingTag", v.tag, v.targetBranch>> >>
    /\ pc' = "createTag"
    /\ UNCHANGED << conf, locks, dir, v, sampled, local, err, inv, call >>

CreateTag ==
    /\ pc = "createTag"
    /\ \E t \in createTag(git, v.tag) :
        /\ Call("createTag", v.tag, "ignored", t.res)
        /\ git' = t.git
    /\ pc' = "checkoutTargetToPushTag"
    /\ UNCHANGED << conf, locks, dir, v, sampled, local, err, out, inv, call >>

CheckoutTargetToPushTag ==
    /\ pc = "checkoutTargetToPushTag"
    /\ RunCheckout(v.targetBranch)
    /\ out' = Append(out, <<"PushingTagToRemote", v.tag>>)
    /\ pc' = "pushTag"
    /\ UNCHANGED << conf, locks, dir, v, sampled, local, err, git, inv, call >>

\* the push of the tag with the test of its result inverted
PushTag_Inverted ==
    /\ pc = "pushTag"
    /\ \E r \in pushToRemote :
        /\ Call("push", v.tag, Res(r), r)
        /\ IF ~r THEN /\ out' = out \o << <<"Done">>,
                                          <<"FetchingDevelopmentBranch", v.developmentBranch>> >>
                      /\ pc' = "checkoutDevelopment"
                      /\ UNCHANGED << locks, err >>
                 ELSE /\ locks' = touch(locks, taggingLockFile)
                      /\ Reject(<<"CannotPushTags">>)
                      /\ out' = out
    /\ UNCHANGED << conf, dir, v, sampled, local, git, inv, call >>

\* the push of the tag without the return after a failure
PushTag_FallsThrough ==
    /\ pc = "pushTag"
    /\ \E r \in pushToRemote :
        /\ Call("push", v.tag, Res(r), r)
        /\ locks' = IF r THEN locks ELSE touch(locks, taggingLockFile)
        /\ out' = out \o << <<"Done">>,
                            <<"FetchingDevelopmentBranch", v.developmentBranch>> >>
        /\ pc' = "checkoutDevelopment"
        /\ err' = err
    /\ UNCHANGED << conf, dir, v, sampled, local, git, inv, call >>

\* the push of the tag: a failure writes the tagging lock file and ends run()
PushTag ==
    /\ pc = "pushTag"
    /\ \E r \in pushToRemote :
        /\ Call("push", v.tag, Res(r), r)
        /\ IF r THEN /\ out' = out \o << <<"Done">>,
                                         <<"FetchingDevelopmentBranch", v.developmentBranch>> >>
                     /\ pc' = "checkoutDevelopment"
                     /\ UNCHANGED << locks, err >>
                ELSE /\ locks' = touch(locks, taggingLockFile)
                     /\ Reject(<<"CannotPushTags">>)
                     /\ out' = out
    /\ UNCHANGED << conf, dir, v, sampled, local, git, inv, call >>

CheckoutDevelopment ==
    /\ pc = "checkoutDevelopment"
    /\ RunCheckout(v.developmentBranch)
    /\ pc' = "pullDevelopment"
    /\ UNCHANGED << conf, locks, dir, v, sampled, local, err, out, git, inv, call >>

\* the pull of development without the lock file
PullDevelopment_NoLock ==
    /\ pc = "pullDevelopment"
    /\ \E p \in pullBranchFromRemote(git) :
        /\ Call("pull", v.developmentBranch, Res(p.res), p.res)
        /\ git' = p.git
        /\ locks' = locks
        /\ IF p.res
              THEN /\ out' = out \o << <<"Done">>,
                                       <<"CreatingTemporaryMergeBranch",
                                         developmentMergeBranch, v.developmentBranch>> >>
                   /\ pc' = "createDevelopmentMergeBranch"
              ELSE /\ pc' = "developmentPullFailed"
                   /\ out' = out
    /\ UNCHANGED << conf, dir, v, sampled, local, err, inv, call >>

\* the lock file is written as soon as the pull has failed, before the
\* check for merge conflicts
PullDevelopment ==
    /\ pc = "pullDevelopment"
    /\ \E p \in pullBranchFromRemote(git) :
        /\ Call("pull", v.developmentBranch, Res(p.res), p.res)
        /\ git' = p.git
        /\ IF p.res
              THEN /\ out' = out \o << <<"Done">>,
                                       <<"CreatingTemporaryMergeBranch",
                                         developmentMergeBranch, v.developmentBranch>> >>
                   /\ pc' = "createDevelopmentMergeBranch"
                   /\ locks' = locks
              ELSE /\ locks' = touch(locks, developmentPullMergeLockFile)
                   /\ pc' = "developmentPullFailed"
                   /\ out' = out
    /\ UNCHANGED << conf, dir, v, sampled, local, err, inv, call >>

\* the check after the failed pull with its two errors exchanged
DevelopmentPullFailed_Exchanged ==
    /\ pc = "developmentPullFailed"
    /\ \E c \in doMergeConflictsExistOnCurrentBranch(git) :
        /\ Call("doMergeConflictsExistOnCurrentBranch", Empty, Found(c), TRUE)
        /\ IF ~c THEN Reject(<<"MergeConflictsOnPull">>)
                 ELSE Reject(<<"ErrorOnPull", v.developmentBranch>>)
    /\ UNCHANGED << conf, locks, dir, v, sampled, local, out, git, inv, call >>

\* after a failed pull: the check for merge conflicts decides the error
DevelopmentPullFailed ==
    /\ pc = "developmentPullFailed"
    /\ \E c \in doMergeConflictsExistOnCurrentBranch(git) :
        /\ Call("doMergeConflictsExistOnCurrentBranch", Empty, Found(c), TRUE)
        /\ IF c THEN Reject(<<"MergeConflictsOnPull">>)
                ELSE Reject(<<"ErrorOnPull", v.developmentBranch>>)
    /\ UNCHANGED << conf, locks, dir, v, sampled, local, out, git, inv, call >>

CreateDevelopmentMergeBranch ==
    /\ pc = "createDevelopmentMergeBranch"
    /\ \E b \in LocalBranches(developmentMergeBranch) :
       \E c \in createAndCheckoutBranch(b, developmentMergeBranch) :
        Call("createAndCheckoutBranch", developmentMergeBranch, "ignored", c.res)
    /\ out' = Append(out, <<"Done">>)
    /\ pc' = "checkoutDevelopmentMerge"
    /\ UNCHANGED << conf, locks, dir, v, sampled, local, err, git, inv, call >>

CheckoutDevelopmentMerge ==
    /\ pc = "checkoutDevelopmentMerge"
    /\ RunCheckout(developmentMergeBranch)
    /\ out' = Append(out, <<"Merge", v.targetBranch, developmentMergeBranch>>)
    /\ pc' = "mergeTarget"
    /\ UNCHANGED << conf, locks, dir, v, sampled, local, err, git, inv, call >>

MergeTarget ==
    /\ pc = "mergeTarget"
    /\ \E m \in mergeBranch(git) :
        /\ Call("merge", v.targetBranch, m.res, m.res = "ok")
        /\ git' = m.git
        /\ pc' = IF m.res = "ok" THEN "readDevelopmentVersion" ELSE "targetMergeFailed"
    /\ UNCHANGED << conf, locks, dir, v, sampled, local, err, out, inv, call >>

\* the catch of the merge of target without the touch on the conflict path
TargetMergeFailed_NoLock ==
    /\ pc = "targetMergeFailed"
    /\ \E c \in doMergeConflictsExistOnCurrentBranch(git) :
        /\ Call("doMergeConflictsExistOnCurrentBranch", Empty, Found(c), TRUE)
        /\ locks' = IF c THEN locks ELSE touch(locks, developmentMergeLockFile)
        /\ IF c THEN Reject(<<"MergeConflictsOnMerge">>)
                ELSE Reject(<<"GitError">>)
    /\ UNCHANGED << conf, dir, v, sampled, local, out, git, inv, call >>

\* the catch of the merge of target: the lock file is written on both paths
TargetMergeFailed ==
    /\ pc = "targetMergeFailed"
    /\ \E c \in doMergeConflictsExistOnCurrentBranch(git) :
        /\ Call("doMergeConflictsExistOnCurrentBranch", Empty, Found(c), TRUE)
        /\ locks' = touch(locks, developmentMergeLockFile)
        /\ IF c THEN Reject(<<"MergeConflictsOnMerge">>)
                ELSE Reject(<<"GitError">>)
    /\ UNCHANGED << conf, dir, v, sampled, local, out, git, inv, call >>

MergeDevelopmentLine == << <<"Merge", developmentMergeBranch, v.developmentBranch>> >>

ReadDevelopmentVersion ==
    /\ pc = "readDevelopmentVersion"
    /\ ReadVersion(v.nextPackageVersion,
                   <<"BranchPackageVersionUpdate", v.nextPackageVersion, developmentMergeBranch>>,
                   "updateDevelopmentVersion",
                   [line |-> << <<"NoPackageUpdateNeeded">> >> \o MergeDevelopmentLine,
                    next |-> "checkoutDevelopmentToMerge"])
    /\ UNCHANGED << conf, locks, dir, v, sampled, git, inv, call >>

UpdateDevelopmentVersion ==
    /\ pc = "updateDevelopmentVersion"
    /\ UpdateVersion(v.nextPackageVersion, "commitDevelopment")
    /\ UNCHANGED << conf, locks, dir, v, sampled, local, out, git, inv, call >>

CommitDevelopment ==
    /\ pc = "commitDevelopment"
    /\ Commit(<< <<"Done">> >> \o MergeDevelopmentLine, "checkoutDevelopmentToMerge")
    /\ UNCHANGED << conf, locks, dir, v, sampled, local, err, git, inv, call >>

CheckoutDevelopmentToMerge ==
    /\ pc = "checkoutDevelopmentToMerge"
    /\ RunCheckout(v.developmentBranch)
    /\ pc' = "mergeDevelopmentMerge"
    /\ UNCHANGED << conf, locks, dir, v, sampled, local, err, out, git, inv, call >>

\* try { await mergeBranch(developmentMergeBranch) } catch {}
MergeDevelopmentMerge ==
    /\ pc = "mergeDevelopmentMerge"
    /\ \E m \in mergeBranch(git) :
        /\ Call("merge", developmentMergeBranch, "ignored", m.res = "ok")
        /\ git' = m.git
    /\ out' = Append(out, <<"PushingToRemote", v.developmentBranch>>)
    /\ pc' = "pushDevelopment"
    /\ UNCHANGED << conf, locks, dir, v, sampled, local, err, inv, call >>

PushDevelopment ==
    /\ pc = "pushDevelopment"
    /\ \E r \in pushToRemote :
        /\ Call("push", v.developmentBranch, Res(r), r)
        /\ IF r THEN /\ out' = out \o << <<"Done">>,
                                         <<"RemovingTemporaryMergeBranch", developmentMergeBranch>> >>
                     /\ pc' = "deleteDevelopmentMerge"
                ELSE /\ out' = Append(out, <<"CannotPushBranchToFinish",
                                             v.developmentBranch, developmentMergeBranch>>)
                     /\ pc' = "checkoutDevelopmentMergeToPush"
    /\ UNCHANGED << conf, locks, dir, v, sampled, local, err, git, inv, call >>

\* deleteLocalBranch(developmentMergeBranch, false)
DeleteDevelopmentMerge ==
    /\ pc = "deleteDevelopmentMerge"
    /\ \E b \in LocalBranches(developmentMergeBranch) :
       \E d \in deleteLocalBranch(b, developmentMergeBranch) :
        Call("deleteLocalBranch", developmentMergeBranch, "ignored", d.res)
    /\ pc' = "finish"
    /\ UNCHANGED << conf, locks, dir, v, sampled, local, err, out, git, inv, call >>

CheckoutDevelopmentMergeToPush ==
    /\ pc = "checkoutDevelopmentMergeToPush"
    /\ RunCheckout(developmentMergeBranch)
    /\ out' = Append(out, <<"PushingToRemote", developmentMergeBranch>>)
    /\ pc' = "pushDevelopmentMerge"
    /\ UNCHANGED << conf, locks, dir, v, sampled, local, err, git, inv, call >>

PushDevelopmentMerge ==
    /\ pc = "pushDevelopmentMerge"
    /\ \E r \in pushToRemote : Call("pushUpstream", developmentMergeBranch, "ignored", r)
    /\ out' = out \o << <<"Done">>,
                        <<"RemovingTemporaryMergeBranchLocally", developmentMergeBranch>> >>
    /\ pc' = "deleteDevelopmentMergeLocally"
    /\ UNCHANGED << conf, locks, dir, v, sampled, local, err, git, inv, call >>

\* the local delete without the advisory line
DeleteDevelopmentMergeLocally_NoAdvisory ==
    /\ pc = "deleteDevelopmentMergeLocally"
    /\ \E b \in LocalBranches(developmentMergeBranch) :
       \E d \in deleteLocalBranch(b, developmentMergeBranch) :
        Call("deleteLocalBranch", developmentMergeBranch, "ignored", d.res)
    /\ out' = out
    /\ pc' = "finish"
    /\ UNCHANGED << conf, locks, dir, v, sampled, local, err, git, inv, call >>

DeleteDevelopmentMergeLocally ==
    /\ pc = "deleteDevelopmentMergeLocally"
    /\ \E b \in LocalBranches(developmentMergeBranch) :
       \E d \in deleteLocalBranch(b, developmentMergeBranch) :
        Call("deleteLocalBranch", developmentMergeBranch, "ignored", d.res)
    /\ out' = Append(out, <<"MergeOnRemoteToFinish", developmentMergeBranch>>)
    /\ pc' = "finish"
    /\ UNCHANGED << conf, locks, dir, v, sampled, local, err, git, inv, call >>

\* ------------------------------------------------------------ finish, main
\* finish(): the progress files are removed before the checkout is awaited
FinishReset ==
    /\ pc = "finish"
    /\ resetDeploy
    /\ pc' = "finishCheckout"
    /\ UNCHANGED << dir, v, sampled, local, err, log, out, git, ok, inv, call >>

\* checkoutBranch(initialBranch || developmentBranch), then "Finished!"
FinishCheckout ==
    /\ pc = "finishCheckout"
    /\ LET branch == IF v.initialBranch # Empty THEN v.initialBranch ELSE v.developmentBranch
       IN  \E c \in checkoutBranch :
            /\ log' = Append(log, Ev("finish", "checkout", branch, "ignored"))
            /\ ok' = (ok /\ c)
    /\ out' = Append(out, <<"Finished">>)
    /\ pc' = "exit"
    /\ UNCHANGED << conf, locks, dir, v, sampled, local, err, git, inv, call >>

\* the catch of main() removing the progress files
MainCatch_Resets ==
    /\ pc = "catch"
    /\ out' = out \o << <<"">>, err >>
    /\ pc' = "exit"
    /\ resetDeploy
    /\ UNCHANGED << dir, v, sampled, local, err, log, git, ok, inv, call >>

\* the catch of main() logging the error before the empty line
MainCatch_ErrorFirst ==
    /\ pc = "catch"
    /\ out' = out \o << err, <<"">> >>
    /\ pc' = "exit"
    /\ UNCHANGED << conf, locks, dir, v, sampled, local, err, log, git, ok, inv, call >>

\* the catch of main(): an empty line, then the error in red
MainCatch ==
    /\ pc = "catch"
    /\ out' = out \o << <<"">>, err >>
    /\ pc' = "exit"
    /\ UNCHANGED << conf, locks, dir, v, sampled, local, err, log, git, ok, inv, call >>

\* ------------------------------------------------------------- environment
\* the calls of run() whose effect on the repository a resumption is to keep
SideEffects ==
    { <<"createAndCheckoutBranch", releaseBranch>>, <<"merge", v.sourceBranch>>,
      <<"push", v.targetBranch>>, <<"createTag", v.tag>>, <<"push", v.tag>> }

\* the side effects this invocation has made, every call so far having succeeded
Completed ==
    IF ok THEN { e \in SideEffects :
                   \E i \in 1..Len(log) :
                       log[i][1] = "run" /\ log[i][2] = e[1] /\ log[i][3] = e[2] }
          ELSE {}

\* the points at which run() is suspended on an awaited call
RunPoints ==
    { "createReleaseBranch", "mergeSource", "sourceMergeFailed", "checkoutRelease",
      "readReleaseVersion", "updateReleaseVersion", "commitRelease",
      "checkoutTargetToMerge", "mergeRelease", "pushTarget", "checkoutReleaseToPush",
      "pushRelease", "deleteRemoteBranch", "deleteLocalBranch", "checkoutTargetToTag",
      "pullTargetToTag", "createTag", "checkoutTargetToPushTag", "pushTag",
      "checkoutDevelopment", "pullDevelopment", "developmentPullFailed",
      "createDevelopmentMergeBranch", "checkoutDevelopmentMerge", "mergeTarget",
      "targetMergeFailed", "readDevelopmentVersion", "updateDevelopmentVersion",
      "commitDevelopment", "checkoutDevelopmentToMerge", "mergeDevelopmentMerge",
      "pushDevelopment", "deleteDevelopmentMerge", "checkoutDevelopmentMergeToPush",
      "pushDevelopmentMerge", "deleteDevelopmentMergeLocally" }

\* the operator terminates the process while run() waits for a call: nothing
\* more is executed, neither the catch of main() nor finish()
Kill ==
    /\ pc \in RunPoints
    /\ pc' = "exit"
    /\ inv' = [inv EXCEPT !.killed = TRUE]
    /\ UNCHANGED << conf, locks, dir, v, sampled, local, err, log, out, git, ok, call >>

\* the variable save file was written by this invocation
Negotiated ==
    /\ conf # NoFile
    /\ \E i \in 1..Len(log) : log[i] = Ev(GV, "prompt", <<"NextVersionToUse">>, "ok")

\* the operator starts the command again: a new process, the progress files
\* and the repository as the previous one left them
Invoke ==
    /\ pc = "exit"
    /\ inv.n < MaxRuns
    /\ pc' = "isGitInstalled"
    /\ v' = InitialVariables
    /\ sampled' = {}
    /\ local' = InitialLocal
    /\ err' = <<"">>
    /\ log' = << >>
    /\ out' = << >>
    /\ ok' = TRUE
    /\ inv' = [n |-> inv.n + 1, conf |-> conf, locks |-> locks, resumed |-> FALSE,
               killed |-> FALSE,
               before |-> IF inv.killed THEN Completed ELSE {},
               negotiatedOn |-> IF conf = NoFile THEN Empty
                                ELSE IF Negotiated THEN v.initialBranch
                                ELSE inv.negotiatedOn,
               conflicts |-> git.conflicts]
    /\ UNCHANGED << conf, locks, dir, git, call >>

\* between two invocations the operator resolves the merge conflicts
OperatorFix ==
    /\ pc = "exit"
    /\ git.conflicts
    /\ git' = [git EXCEPT !.conflicts = FALSE]
    /\ UNCHANGED << pc, conf, locks, dir, v, sampled, local, err, log, out, ok, inv, call >>

Prerequisites ==
    \/ CheckGitInstalled
    \/ CheckCurrentDirectoryGitRepo
    \/ CheckWorkingDirectoryClean

Negotiation ==
    \/ AskContinue
    \/ AskRemote
    \/ CheckRemote
    \/ GetInitialBranch
    \/ AskSource
    \/ CheckSource
    \/ AskTarget
    \/ CheckTarget
    \/ AskDevelopment
    \/ CheckDevelopment
    \/ CheckoutTarget
    \/ PullTarget
    \/ ReadTargetVersion
    \/ CheckoutSource
    \/ PullSource
    \/ ReadSourceVersion
    \/ AskVersion
    \/ CheckTagUniqueness
    \/ AskNextVersion

Run ==
    \/ RunStart
    \/ CreateReleaseBranch
    \/ MergeSource
    \/ SourceMergeFailed
    \/ CheckoutRelease
    \/ ReadReleaseVersion
    \/ UpdateReleaseVersion
    \/ CommitRelease
    \/ CheckoutTargetToMerge
    \/ MergeRelease
    \/ PushTarget
    \/ CheckoutReleaseToPush
    \/ PushRelease
    \/ DeleteRemoteBranch
    \/ DeleteLocalBranch
    \/ CheckoutTargetToTag
    \/ PullTargetToTag
    \/ CreateTag
    \/ CheckoutTargetToPushTag
    \/ PushTag
    \/ CheckoutDevelopment
    \/ PullDevelopment
    \/ DevelopmentPullFailed
    \/ CreateDevelopmentMergeBranch
    \/ CheckoutDevelopmentMerge
    \/ MergeTarget
    \/ TargetMergeFailed
    \/ ReadDevelopmentVersion
    \/ UpdateDevelopmentVersion
    \/ CommitDevelopment
    \/ CheckoutDevelopmentToMerge
    \/ MergeDevelopmentMerge
    \/ PushDevelopment
    \/ DeleteDevelopmentMerge
    \/ CheckoutDevelopmentMergeToPush
    \/ PushDevelopmentMerge
    \/ DeleteDevelopmentMergeLocally

Process == Prerequisites \/ Negotiation \/ Run \/ FinishReset \/ FinishCheckout \/ MainCatch

Next == Process \/ Invoke \/ OperatorFix

Spec == Init /\ [][Next]_vars

\* every awaited call returns, and the operator starts the command again
FairSpec == Spec /\ WF_vars(Process)

\* the same program with an operator who may terminate it during run()
KillNext == Next \/ Kill

KillSpec == Init /\ [][KillNext]_vars

\* ------------------------------------------------- helpers called on their own
\* The helpers whose answer depends on their arguments alone are called with
\* arguments drawn from bounded sets.

\* the longest working directory path
MaxPathLen == 3

\* characters of a path: the separator, the two other characters
\* getFileNameSaveCwd replaces, the character it replaces them by, a letter
PathChars == {"/", ":", "_", "a"}

\* process.cwd(): an absolute, normalised path
WorkingDirectories ==
    { p \in UNION { [1..n -> PathChars] : n \in 1..MaxPathLen } :
        /\ p[1] = "/"
        /\ Len(p) > 1 => p[Len(p)] # "/"
        /\ \A i \in 1..(Len(p) - 1) : ~(p[i] = "/" /\ p[i + 1] = "/") }

\* current versions: majors, minors (small, with a leading zero, ending in
\* 9, and around 2^53) and patches, and strings that are no #.#.#
Majors == { <<"0">>, <<"1">>, <<"1", "2">> }
Minors == { <<"0">>, <<"4">>, <<"9">>, <<"0", "4">>, <<"9", "9">>,
            Dec(Dec(TwoTo53)), Dec(TwoTo53), TwoTo53, Inc(TwoTo53) }
Patches == { <<"0">>, <<"6">> }
CurrentVersions ==
    { a \o <<".">> \o b \o <<".">> \o c : a \in Majors, b \in Minors, c \in Patches }
        \cup { Empty, VSnapshot, <<"1", ".", "4">>, <<"v", "1", ".", "4", ".", "6">> }

\* local release branches a repository may have
ReleaseBranches == { createReleaseBranchName(createReleaseTag(ver)) : ver \in {V146, V150} }

\* the files the progress directory may hold for a working directory
ProgressDirectory == { ResetOrder[i] : i \in 1..Len(ResetOrder) }

Calls ==
    { [fn |-> "createAndCheckoutBranch", args |-> <<branches, branch>>,
       done |-> FALSE, result |-> << >>] :
        branches \in SUBSET ReleaseBranches, branch \in ReleaseBranches }
    \cup
    { [fn |-> "progressFile", args |-> <<cwd, other>>, done |-> FALSE, result |-> << >>] :
        cwd \in WorkingDirectories, other \in WorkingDirectories }
    \cup
    { [fn |-> "getSuggestedNextRepositoryVersion", args |-> <<currentVersion>>,
       done |-> FALSE, result |-> << >>] :
        currentVersion \in CurrentVersions }
    \cup
    { [fn |-> "resetDeploy", args |-> <<files, failing>>, done |-> FALSE, result |-> << >>] :
        files \in SUBSET ProgressDirectory, failing \in SUBSET ProgressDirectory }

UtilsInit == Constructed /\ call \in Calls

\* stage 1 of run(): createAndCheckoutBranch(releaseBranch, targetBranch)
CallCreateAndCheckoutBranch ==
    /\ call.fn = "createAndCheckoutBranch"
    /\ ~call.done
    /\ \E c \in createAndCheckoutBranch(call.args[1], call.args[2]) :
        call' = [call EXCEPT !.done = TRUE, !.result = c]
    /\ UNCHANGED << pc, conf, locks, dir, v, sampled, local, err, log, out, git, ok, inv >>

\* the progress file names the command uses in two working directories
CallProgressFile ==
    /\ call.fn = "progressFile"
    /\ ~call.done
    /\ call' = [call EXCEPT !.done = TRUE,
                            !.result = << ProgressFileNames(call.args[1]),
                                          ProgressFileNames(call.args[2]) >>]
    /\ UNCHANGED << pc, conf, locks, dir, v, sampled, local, err, log, out, git, ok, inv >>

CallGetSuggestedNextRepositoryVersion ==
    /\ call.fn = "getSuggestedNextRepositoryVersion"
    /\ ~call.done
    /\ call' = [call EXCEPT !.done = TRUE,
                            !.result = getSuggestedNextRepositoryVersion(call.args[1])]
    /\ UNCHANGED << pc, conf, locks, dir, v, sampled, local, err, log, out, git, ok, inv >>

\* resetDeploy() in a progress directory where some removals fail
CallResetDeploy ==
    /\ call.fn = "resetDeploy"
    /\ ~call.done
    /\ call' = [call EXCEPT !.done = TRUE,
                            !.result = UnlinkEach(ResetOrder, call.args[1], call.args[2])]
    /\ UNCHANGED << pc, conf, locks, dir, v, sampled, local, err, log, out, git, ok, inv >>

UtilsNext ==
    \/ CallCreateAndCheckoutBranch
    \/ CallProgressFile
    \/ CallGetSuggestedNextRepositoryVersion
    \/ CallResetDeploy

UtilsSpec == UtilsInit /\ [][UtilsNext]_vars

\* ------------------------------------------- lock files left by other processes
\* The command started with a variable save file and any set of lock files
\* in the progress directory: what a process of the command finds when other
\* processes have written files of the same names (two processes in one
\* working directory, or in two working directories of the same file name).
LeftFile ==
    [ remote |-> origin, sourceBranch |-> develop, targetBranch |-> master,
      developmentBranch |-> develop, packageVersion |-> V146,
      nextPackageVersion |-> V150, tag |-> createReleaseTag(V146) ]

LockFilesInit ==
    /\ pc = "isGitInstalled"
    /\ conf = {LeftFile}
    /\ locks \in SUBSET LockFiles
    /\ dir = TRUE
    /\ v = InitialVariables
    /\ sampled = {}
    /\ local = InitialLocal
    /\ err = <<"">>
    /\ log = << >>
    /\ out = << >>
    /\ git = [tags |-> {}, conflicts |-> FALSE]
    /\ ok = TRUE
    /\ inv = [n |-> 1, conf |-> conf, locks |-> locks, resumed |-> FALSE,
             killed |-> FALSE, before |-> {}, negotiatedOn |-> feature,
             conflicts |-> FALSE]
    /\ call = NoCall

\* one process of the command
LockFilesSpec == LockFilesInit /\ [][Process]_vars

TypeOK ==
    /\ Cardinality(conf) <= 1
    /\ \A file \in conf : semverRegex(file.packageVersion) /\ semverRegex(file.nextPackageVersion)
    /\ locks \subseteq LockFiles
    /\ inv.n \in 1..MaxRuns
    /\ inv.killed \in BOOLEAN
    /\ inv.negotiatedOn \in getCurrentBranch
    /\ inv.conflicts \in BOOLEAN
    /\ \A e \in inv.before : e[1] \in {"createAndCheckoutBranch", "merge", "push", "createTag"}

\* ------------------------------------------------------------- vocabulary
Last(s) == s[Len(s)]

\* run() has made the call
Did(op, arg) ==
    \E i \in 1..Len(log) : log[i][1] = "run" /\ log[i][2] = op /\ log[i][3] = arg

\* run() has made the call and it had this result
DidWith(op, arg, res) ==
    \E i \in 1..Len(log) :
        log[i][1] = "run" /\ log[i][2] = op /\ log[i][3] = arg /\ log[i][4] = res

\* the calls of run(), in order, as <<operation, argument>>
RunCalls ==
    LET calls == SelectSeq(log, LAMBDA e : e[1] = "run")
    IN  [ i \in 1..Len(calls) |-> <<calls[i][2], calls[i][3]>> ]

Exited == pc = "exit"

\* the invocation has ended and its last output line is "Finished!"
ReportedFinished == Exited /\ out # << >> /\ Last(out) = <<"Finished">>

\* the invocation has ended in the catch of main() with this error
HaltedWith(e) == Exited /\ out # << >> /\ Last(out) = e /\ err = e

\* the invocation found a variable save file and exactly this lock file, and
\* the operator chose to continue
ResumedWithOnly(M) == inv.resumed /\ inv.conf # NoFile /\ inv.locks = {M}

StageOf(M) == CHOOSE i \in 1..Len(progressFile) : progressFile[i] = M

\* the calls on the development branch that stages 5 and 6 make
DevelopmentAction ==
    \/ Did("checkout", v.developmentBranch)
    \/ Did("pull", v.developmentBranch)
    \/ Did("createAndCheckoutBranch", developmentMergeBranch)
    \/ Did("merge", v.targetBranch)
    \/ Did("merge", developmentMergeBranch)
    \/ Did("push", v.developmentBranch)

\* ------------------------------------------------------------------ claims

\* C1: an invocation that is resumed with the variable save file and only the
\* lock file M present never makes the calls of a stage before the stage of
\* M: it never creates the release branch nor merges the source branch (any
\* M), never merges the release branch into target nor pushes target (M from
\* targetMerge on), never creates the tag (M from tagging on), never pushes
\* the tag (M from developmentPull on), never pulls development nor creates
\* the development merge branch (M = developmentMerge).
C1_ResumeSkipsEarlierStages ==
    \A M \in LockFiles :
        ResumedWithOnly(M) =>
            /\ ~Did("createAndCheckoutBranch", releaseBranch)
            /\ ~Did("merge", v.sourceBranch)
            /\ StageOf(M) >= 2 =>
                  ~Did("merge", releaseBranch) /\ ~Did("push", v.targetBranch)
            /\ StageOf(M) >= 3 => ~Did("createTag", v.tag)
            /\ StageOf(M) >= 4 => ~Did("push", v.tag)
            /\ StageOf(M) >= 5 =>
                  /\ ~Did("pull", v.developmentBranch)
                  /\ ~Did("createAndCheckoutBranch", developmentMergeBranch)

C1_Witness ==
    /\ ResumedWithOnly(developmentMergeLockFile)
    /\ ReportedFinished
    /\ Did("merge", v.targetBranch)

\* C2: an invocation that is resumed with only the lock file M present and in
\* which every call succeeds comes to its end, and ends with "Finished!"
\* without having been through the catch of main().
C2_ResumeFinishes ==
    /\ [](\A M \in LockFiles :
            (ResumedWithOnly(M) /\ Exited /\ ok) => (ReportedFinished /\ err = <<"">>))
    /\ []((\E M \in LockFiles : ResumedWithOnly(M)) => <>Exited)

C2_Witness ==
    /\ ResumedWithOnly(sourceMergeLockFile)
    /\ ok
    /\ ReportedFinished
    /\ Did("push", v.targetBranch)

\* C3: whenever an invocation has reported "Finished!" the variable save file
\* and the five lock files are gone; the invocation started next finds no
\* save file, and an invocation that found none does not ask whether to
\* continue.
C3_FinishedClearsCheckpoint ==
    /\ [](ReportedFinished => conf = NoFile /\ locks = {})
    /\ [][ReportedFinished /\ inv'.n = inv.n + 1
            => inv'.conf = NoFile /\ inv'.locks = {}]_vars
    /\ [](\A i \in 1..Len(log) :
            log[i][3] = <<"ContinuePreviousProcess">> => inv.conf # NoFile)

C3_Witness ==
    /\ ReportedFinished
    /\ inv.conf # NoFile
    /\ inv.locks # {}
    /\ conf = NoFile

\* C4: when the process is killed while run() waits for a call and is invoked
\* again with the continuation confirmed and every operation succeeding, the
\* resumed invocation repeats none of the side effects completed before the
\* kill (creation of the release branch, merge of source, push of target,
\* creation of the tag, push of the tag), apart from at most one action.
C4_KillRepeatsNothing ==
    (inv.resumed /\ ok) => Cardinality({ e \in inv.before : Did(e[1], e[2]) }) <= 1

\* C5: in an invocation that was not resumed, once the push of the target
\* branch has failed, the local release branch is not deleted, no tag is
\* created or pushed and no call is made on the development branch; the
\* invocation ends with the release branch pushed with its upstream set, the
\* targetMerge lock file written and the error HaveSomeoneMerge naming the
\* release branch.
C5_PushTargetDenied ==
    (~inv.resumed /\ DidWith("push", v.targetBranch, "fail")) =>
        /\ ~Did("deleteLocalBranch", releaseBranch)
        /\ ~Did("createTag", v.tag)
        /\ ~Did("push", v.tag)
        /\ ~DevelopmentAction
        /\ Exited =>
              /\ Did("pushUpstream", releaseBranch)
              /\ targetMergeLockFile \in locks
              /\ HaltedWith(<<"HaveSomeoneMerge", releaseBranch>>)

C5_Witness ==
    /\ ~inv.resumed
    /\ DidWith("push", v.targetBranch, "fail")
    /\ Exited
    /\ targetMergeLockFile \in locks

\* the first calls run() makes when it finds the targetMerge lock file
AfterTargetMerge ==
    << <<"deleteRemoteBranch", releaseBranch>>,
       <<"deleteLocalBranch", releaseBranch>>,
       <<"checkout", v.targetBranch>>,
       <<"pull", v.targetBranch>>,
       <<"createTag", v.tag>> >>

\* C6: an invocation resumed with the targetMerge lock file present removes
\* that lock file, does not create the release branch, and neither merges
\* into nor pushes the target branch; the calls of its run() start with:
\* delete the remote release branch, delete the local release branch, check
\* out and pull target, create the tag - all five made when it ends.
C6_ResumeAfterTargetMerge ==
    (inv.resumed /\ targetMergeLockFile \in inv.locks /\ pc # "run") =>
        /\ targetMergeLockFile \notin locks
        /\ ~Did("createAndCheckoutBranch", releaseBranch)
        /\ ~Did("merge", releaseBranch)
        /\ ~Did("push", v.targetBranch)
        /\ \A i \in 1..Len(RunCalls) :
              i <= Len(AfterTargetMerge) => RunCalls[i] = AfterTargetMerge[i]
        /\ Exited => Len(RunCalls) >= Len(AfterTargetMerge)

C6_Witness ==
    /\ inv.resumed
    /\ targetMergeLockFile \in inv.locks
    /\ Exited
    /\ Did("deleteRemoteBranch", releaseBranch)
    /\ Did("createTag", v.tag)

\* C7: once the merge of the source branch into the release branch has failed
\* and the check has found merge conflicts, the sourceMerge lock file is
\* written and the invocation ends with FixReleaseBranchMergeConflicts naming
\* the release branch; no version is written, nothing is committed, the
\* release branch is not merged and nothing is pushed.
C7_SourceMergeConflict ==
    (/\ ~DidWith("merge", v.sourceBranch, "ok")
     /\ Did("merge", v.sourceBranch)
     /\ DidWith("doMergeConflictsExistOnCurrentBranch", Empty, "conflicts")) =>
        /\ sourceMergeLockFile \in locks
        /\ err = <<"FixReleaseBranchMergeConflicts", releaseBranch>>
        /\ Exited => HaltedWith(<<"FixReleaseBranchMergeConflicts", releaseBranch>>)
        /\ \A i \in 1..Len(RunCalls) :
              RunCalls[i][1] \notin {"updateRepositoryVersion", "commit", "push", "pushUpstream"}
        /\ ~Did("merge", releaseBranch)

C7_Witness ==
    /\ DidWith("merge", v.sourceBranch, "conflict")
    /\ DidWith("doMergeConflictsExistOnCurrentBranch", Empty, "conflicts")
    /\ Exited
    /\ sourceMergeLockFile \in locks

\* C8: once the push of the tag has failed, the tagging lock file is written,
\* no call is made on the development branch, and the invocation ends with
\* CannotPushTags.
C8_TagPushDenied ==
    DidWith("push", v.tag, "fail") =>
        /\ taggingLockFile \in locks
        /\ ~DevelopmentAction
        /\ err = <<"CannotPushTags">>
        /\ Exited => HaltedWith(<<"CannotPushTags">>)

C8_Witness ==
    /\ DidWith("push", v.tag, "fail")
    /\ Did("createTag", v.tag)
    /\ Exited
    /\ taggingLockFile \in locks

\* C9: once the pull of the development branch has failed and the check has
\* found merge conflicts, the developmentPull lock file is written, the
\* development merge branch is not created, and the invocation ends with
\* MergeConflictsOnPull.
C9_DevelopmentPullConflict ==
    (/\ DidWith("pull", v.developmentBranch, "fail")
     /\ DidWith("doMergeConflictsExistOnCurrentBranch", Empty, "conflicts")) =>
        /\ developmentPullMergeLockFile \in locks
        /\ ~Did("createAndCheckoutBranch", developmentMergeBranch)
        /\ err = <<"MergeConflictsOnPull">>
        /\ Exited => HaltedWith(<<"MergeConflictsOnPull">>)

C9_Witness ==
    /\ DidWith("pull", v.developmentBranch, "fail")
    /\ DidWith("doMergeConflictsExistOnCurrentBranch", Empty, "conflicts")
    /\ Exited
    /\ developmentPullMergeLockFile \in locks

\* C10 as claimed: when the pull of the development branch has failed and the
\* check has found no merge conflicts, the invocation ends with ErrorOnPull
\* and the developmentPull lock file has not been written.
C10_Original ==
    (/\ Exited
     /\ DidWith("pull", v.developmentBranch, "fail")
     /\ DidWith("doMergeConflictsExistOnCurrentBranch", Empty, "clean")) =>
        /\ HaltedWith(<<"ErrorOnPull", v.developmentBranch>>)
        /\ developmentPullMergeLockFile \notin locks

\* C10 as amended: when the pull of the development branch has failed and the
\* check has found no merge conflicts, the invocation ends with ErrorOnPull
\* naming the development branch, and the developmentPull lock file has been
\* written (it is written before the check), as it is when conflicts exist.
C10_PullErrorKeepsLock ==
    (/\ DidWith("pull", v.developmentBranch, "fail")
     /\ DidWith("doMergeConflictsExistOnCurrentBranch", Empty, "clean")) =>
        /\ developmentPullMergeLockFile \in locks
        /\ ~Did("createAndCheckoutBranch", developmentMergeBranch)
        /\ err = <<"ErrorOnPull", v.developmentBranch>>
        /\ Exited => HaltedWith(<<"ErrorOnPull", v.developmentBranch>>)

C10_Witness ==
    /\ DidWith("pull", v.developmentBranch, "fail")
    /\ DidWith("doMergeConflictsExistOnCurrentBranch", Empty, "clean")
    /\ Exited
    /\ HaltedWith(<<"ErrorOnPull", v.developmentBranch>>)

\* C11: once the merge of the target branch into the development merge branch
\* has failed and the check has found merge conflicts, the developmentMerge
\* lock file exists and the error is MergeConflictsOnMerge, which is the last
\* line of output when the invocation has ended; the invocation neither
\* merges into the development branch nor pushes it.
C11_TargetMergeConflict ==
    ( /\ \/ DidWith("merge", v.targetBranch, "conflict")
          \/ DidWith("merge", v.targetBranch, "error")
      /\ DidWith("doMergeConflictsExistOnCurrentBranch", Empty, "conflicts") ) =>
        /\ developmentMergeLockFile \in locks
        /\ pc \in {"catch", "exit"}
        /\ err = <<"MergeConflictsOnMerge">>
        /\ Exited => HaltedWith(<<"MergeConflictsOnMerge">>)
        /\ ~Did("merge", developmentMergeBranch)
        /\ ~Did("push", v.developmentBranch)

C11_Witness ==
    /\ DidWith("merge", v.targetBranch, "conflict")
    /\ DidWith("doMergeConflictsExistOnCurrentBranch", Empty, "conflicts")
    /\ developmentMergeLockFile \in locks
    /\ HaltedWith(<<"MergeConflictsOnMerge">>)

\* C12: once the push of the development branch has failed, run() goes on
\* without an error: it checks out the development merge branch, pushes it
\* with its upstream set and deletes it locally, these being its last calls;
\* no lock file is written, and when the invocation has ended the progress
\* files are gone, the last line of output is "Finished!" and the line before
\* it is the MergeOnRemoteToFinish advisory.
C12_DevelopmentPushDenied ==
    DidWith("push", v.developmentBranch, "fail") =>
        /\ pc \in {"checkoutDevelopmentMergeToPush", "pushDevelopmentMerge",
                   "deleteDevelopmentMergeLocally", "finish", "finishCheckout", "exit"}
        /\ err = <<"">>
        /\ locks \subseteq inv.locks
        /\ pc \in {"finish", "finishCheckout", "exit"} =>
              /\ Len(RunCalls) >= 4
              /\ SubSeq(RunCalls, Len(RunCalls) - 3, Len(RunCalls)) =
                    << <<"push", v.developmentBranch>>,
                       <<"checkout", developmentMergeBranch>>,
                       <<"pushUpstream", developmentMergeBranch>>,
                       <<"deleteLocalBranch", developmentMergeBranch>> >>
        /\ Exited =>
              /\ conf = NoFile /\ locks = {}
              /\ ReportedFinished
              /\ Len(out) >= 2
              /\ out[Len(out) - 1] = <<"MergeOnRemoteToFinish", developmentMergeBranch>>

C12_Witness ==
    /\ DidWith("push", v.developmentBranch, "fail")
    /\ Did("pushUpstream", developmentMergeBranch)
    /\ ReportedFinished

\* the calls of run() that change the repository or the remote, in order
Effects ==
    SelectSeq(RunCalls, LAMBDA c : c[1] \in {"createAndCheckoutBranch", "merge",
                                             "updateRepositoryVersion", "commit", "push",
                                             "pushUpstream", "deleteRemoteBranch",
                                             "deleteLocalBranch", "pull", "createTag"})

\* the versions run() has read from the version file, in order
VersionsRead ==
    LET reads == SelectSeq(RunCalls, LAMBDA c : c[1] = "getRepositoryVersion")
    IN  [ i \in 1..Len(reads) |-> reads[i][2] ]

\* the version bump to `wanted` when the version read differs from it
Bump(read, wanted) ==
    IF read # wanted THEN << <<"updateRepositoryVersion", wanted>>, <<"commit", Empty>> >>
                     ELSE << >>

\* C13: when an invocation that was not resumed has entered run() and ended
\* with every call having succeeded, its side effects are, once each and in
\* this order: create the release branch, merge source, bump to the release
\* version and commit (if the version read differs), merge release (into
\* target), push target, delete the local release branch, pull target,
\* create the tag, push the tag, pull development, create the development
\* merge branch, merge target, bump to the next version and commit (if the
\* version read differs), merge the development merge branch, push
\* development, delete the development merge branch; then the progress files
\* are removed and "Finished!" is reported.
C13_FreshRunOrder ==
    (~inv.resumed /\ ok /\ Exited /\ RunCalls # << >>) =>
        /\ Len(VersionsRead) = 2
        /\ Effects =
              << <<"createAndCheckoutBranch", releaseBranch>>,
                 <<"merge", v.sourceBranch>> >>
              \o Bump(VersionsRead[1], v.packageVersion) \o
              << <<"merge", releaseBranch>>,
                 <<"push", v.targetBranch>>,
                 <<"deleteLocalBranch", releaseBranch>>,
                 <<"pull", v.targetBranch>>,
                 <<"createTag", v.tag>>,
                 <<"push", v.tag>>,
                 <<"pull", v.developmentBranch>>,
                 <<"createAndCheckoutBranch", developmentMergeBranch>>,
                 <<"merge", v.targetBranch>> >>
              \o Bump(VersionsRead[2], v.nextPackageVersion) \o
              << <<"merge", developmentMergeBranch>>,
                 <<"push", v.developmentBranch>>,
                 <<"deleteLocalBranch", developmentMergeBranch>> >>
        /\ conf = NoFile /\ locks = {}
        /\ ReportedFinished

C13_Witness ==
    /\ ~inv.resumed /\ ok /\ ReportedFinished
    /\ Did("updateRepositoryVersion", v.packageVersion)
    /\ ~Did("updateRepositoryVersion", v.nextPackageVersion)
    /\ Did("push", v.developmentBranch)

\* the invocation has failed in getVariables(): the rejection came from one
\* of its calls or from the comparison of one of its answers
NegotiationFailed ==
    /\ pc \in {"catch", "exit"}
    /\ log # << >>
    /\ Last(log)[1] = GV

\* C14: the variable save file is written only by the step that ends a
\* successful negotiation (the well formatted answer to the next version
\* prompt, after which run() is entered); when getVariables() has failed
\* neither the variable save file nor a lock file exists and run() has made
\* no call.
C14_NoPartialCheckpoint ==
    /\ [](NegotiationFailed => conf = NoFile /\ locks = {} /\ RunCalls = << >>)
    /\ [][(conf' # conf /\ conf' # NoFile) =>
            /\ pc = "askNextVersion" /\ pc' = "run"
            /\ conf' = {SavedVariables(v')}
            /\ semverRegex(v'.packageVersion) /\ semverRegex(v'.nextPackageVersion)]_vars

C14_Witness ==
    /\ NegotiationFailed
    /\ Exited
    /\ inv.conf # NoFile
    /\ inv.locks # {}
    /\ err = <<"TagExists", v.tag>>

\* what getVariables() has done in this invocation, in order
NegotiationSteps == SelectSeq(log, LAMBDA e : e[1] = GV)

\* C15: in an invocation the operator chose to continue, the seven variables
\* are those of the variable save file found, the confirmed continuation
\* question is all that getVariables() has done (no other prompt, no check
\* of the remote, of a branch or of the tag, no checkout, no pull) and the
\* variable save file is not written again.
C15_ResumeLoadsSnapshot ==
    /\ [](inv.resumed =>
            /\ inv.conf = {SavedVariables(v)}
            /\ NegotiationSteps = << Ev(GV, "prompt", <<"ContinuePreviousProcess">>, "ok") >>
            /\ conf \in {inv.conf, NoFile})
    /\ [][inv'.resumed /\ ~inv.resumed => pc' = "run" /\ conf' = conf]_vars

C15_Witness ==
    /\ inv.resumed
    /\ pc = "run"
    /\ inv.conf = {SavedVariables(v)}

\* the operator was asked whether to continue and answered no
Declined ==
    \E i \in 1..Len(log) : log[i] = Ev(GV, "prompt", <<"ContinuePreviousProcess">>, "fail")

\* C16: when the operator declines to continue, the variable save file and
\* every lock file are removed before a variable is asked for (by the time
\* the remote is asked for none exists and no variable is set), the next
\* thing getVariables() does is the prompt for the remote, a variable save
\* file that exists later is the one this negotiation wrote, a lock file
\* that exists later was written by this run(), and the first call of run()
\* creates the release branch, whatever lock files existed before.
C16_DeclineResets ==
    Declined =>
        /\ ~inv.resumed
        /\ inv.conf # NoFile
        /\ NegotiationSteps[1] = Ev(GV, "prompt", <<"ContinuePreviousProcess">>, "fail")
        /\ pc = "askRemote" => conf = NoFile /\ locks = {} /\ v = InitialVariables
        /\ Len(NegotiationSteps) >= 2 =>
              NegotiationSteps[2] = Ev(GV, "prompt", <<"GitRemoteToUse">>, "ok")
        /\ conf # NoFile => conf = {SavedVariables(v)} /\ pc \notin {"askRemote", "askNextVersion"}
        /\ RunCalls = << >> => locks = {}
        /\ RunCalls # << >> => RunCalls[1] = <<"createAndCheckoutBranch", releaseBranch>>

C16_Witness ==
    /\ Declined
    /\ developmentMergeLockFile \in inv.locks
    /\ Did("createAndCheckoutBranch", releaseBranch)
    /\ Did("merge", v.sourceBranch)

\* C17: the first thing getVariables() does is the continuation question when
\* the variable save file existed at the start of the invocation, and the
\* prompt for the remote when it did not; the continuation question is asked
\* nowhere else.
C17_ContinuationQuestion ==
    /\ NegotiationSteps # << >> =>
          NegotiationSteps[1][3] = (IF inv.conf # NoFile THEN <<"ContinuePreviousProcess">>
                                                         ELSE <<"GitRemoteToUse">>)
    /\ \A i \in 2..Len(NegotiationSteps) :
          NegotiationSteps[i][3] # <<"ContinuePreviousProcess">>
    /\ pc = "getVariables" => (canThePreviousProcessBeContinued <=> inv.conf # NoFile)

C17_Witness ==
    /\ inv.conf # NoFile
    /\ inv.locks = {}
    /\ NegotiationSteps # << >>
    /\ NegotiationSteps[1][3] = <<"ContinuePreviousProcess">>

\* run() has rejected: the invocation is in or past the catch of main() and
\* the last call made was one of run()
RunFailed ==
    /\ pc \in {"catch", "exit"}
    /\ err # <<"">>
    /\ log # << >>
    /\ Last(log)[1] = "run"

\* C18: when run() has rejected, after a successful or a continued
\* negotiation, the variable save file still exists and holds the variables
\* of this invocation, and the invocation started next finds it and begins
\* getVariables() with the continuation question.
C18_FailureKeepsSnapshot ==
    /\ [](RunFailed => conf = {SavedVariables(v)})
    /\ [][(RunFailed /\ inv'.n = inv.n + 1) =>
            /\ inv'.conf = {SavedVariables(v)}
            /\ conf' = inv'.conf
            /\ inv'.locks = locks]_vars
    /\ [][(pc = "getVariables" /\ inv.conf # NoFile /\ log' # log) =>
            Last(log')[3] = <<"ContinuePreviousProcess">>]_vars

C18_Witness ==
    /\ RunFailed
    /\ Exited
    /\ inv.resumed
    /\ inv.n > 1
    /\ locks = {}
    /\ conf = {SavedVariables(v)}

\* "Finished!" is among the lines written
FinishedWritten == \E i \in 1..Len(out) : out[i] = <<"Finished">>

\* C19: an invocation that has ended after a rejection (of a prerequisite
\* check, of getVariables() or of run()) has the error as its last line of
\* output and has not written "Finished!"; "Finished!" is written only by an
\* invocation without error whose run() has returned, its last call being
\* the local delete of the development merge branch, and finish() having
\* made its checkout.
C19_ErrorIsLastLine ==
    /\ (pc \in {"catch", "exit"} /\ err # <<"">>) =>
          /\ ~FinishedWritten
          /\ Exited => out # << >> /\ Last(out) = err
    /\ pc = "catch" => err # <<"">>
    /\ FinishedWritten =>
          /\ Exited /\ err = <<"">>
          /\ Last(out) = <<"Finished">>
          /\ RunCalls # << >>
          /\ Last(RunCalls) = <<"deleteLocalBranch", developmentMergeBranch>>
          /\ Last(log)[1] = "finish"
    /\ Exited => (err # <<"">> \/ FinishedWritten)

C19_Witness ==
    /\ Exited
    /\ err = <<"BranchDoesNotExist", v.developmentBranch>>
    /\ Last(out) = err
    /\ inv.n > 1

\* the checks checkPrerequisites() has made, in order
PrerequisiteChecks ==
    LET checks == SelectSeq(log, LAMBDA e : e[1] = "checkPrerequisites")
    IN  [ i \in 1..Len(checks) |-> checks[i][2] ]

\* a check of checkPrerequisites() has failed
PrerequisiteFailed ==
    \E i \in 1..Len(log) : log[i][1] = "checkPrerequisites" /\ log[i][4] = "fail"

\* the error of each check
PrerequisiteError(check) ==
    CASE check = "isGitInstalled" -> <<"GitNotInstalled">>
      [] check = "isCurrentDirectoryGitRepo" -> <<"CurrentDirectoryNotGitRepo">>
      [] check = "isWorkingDirectoryClean" -> <<"WorkspaceNotClean">>

\* C20: the checks are made in the order git installed, current directory a
\* repository, working directory clean, before anything else; once a check
\* has failed it is the last thing the invocation does: the error is that
\* check's, it is the last line of output when the invocation has ended, no
\* prompt is issued, no progress file is written or removed and neither
\* getVariables() nor run() makes a call.
C20_PrerequisiteOrder ==
    /\ PrerequisiteChecks =
          SubSeq(<<"isGitInstalled", "isCurrentDirectoryGitRepo", "isWorkingDirectoryClean">>,
                 1, Len(PrerequisiteChecks))
    /\ \A i \in 1..Len(log) : (i <= Len(PrerequisiteChecks)) <=> (log[i][1] = "checkPrerequisites")
    /\ \A i \in 1..(Len(PrerequisiteChecks) - 1) : log[i][4] = "ok"
    /\ (Len(log) > Len(PrerequisiteChecks)) => Len(PrerequisiteChecks) = 3 /\ log[3][4] = "ok"
    /\ PrerequisiteFailed =>
          /\ Last(log)[1] = "checkPrerequisites" /\ Last(log)[4] = "fail"
          /\ pc \in {"catch", "exit"}
          /\ err = PrerequisiteError(Last(log)[2])
          /\ Exited => HaltedWith(PrerequisiteError(Last(log)[2]))
          /\ NegotiationSteps = << >> /\ RunCalls = << >>
          /\ conf = inv.conf /\ locks = inv.locks

C20_Witness ==
    /\ PrerequisiteFailed
    /\ PrerequisiteChecks = <<"isGitInstalled", "isCurrentDirectoryGitRepo">>
    /\ HaltedWith(<<"CurrentDirectoryNotGitRepo">>)
    /\ inv.conf # NoFile

\* getVariables() has checked out or pulled a branch
NegotiationFetched ==
    \E i \in 1..Len(NegotiationSteps) :
        NegotiationSteps[i][2] \in {"checkout", "isBranchCleanWhenUpdatedFromRemote"}

\* C21: whenever the target branch equals the source branch, or the
\* development branch equals the target branch, the invocation is failing
\* with the error of that collision, which is its last line of output when
\* it has ended; getVariables() has made no checkout and no pull, the
\* colliding answer is the last thing it did, no variable save file exists
\* and run() has made no call.
C21_BranchCollision ==
    /\ (v.targetBranch # Empty /\ v.targetBranch = v.sourceBranch) =>
          /\ pc \in {"catch", "exit"}
          /\ err = <<"TargetAndSourceBranchesMustDiffer">>
          /\ Exited => HaltedWith(<<"TargetAndSourceBranchesMustDiffer">>)
          /\ Last(log) = Ev(GV, "prompt", <<"TargetBranchToUse">>, "ok")
          /\ ~NegotiationFetched /\ conf = NoFile /\ RunCalls = << >>
    /\ (v.developmentBranch # Empty /\ v.developmentBranch = v.targetBranch) =>
          /\ pc \in {"catch", "exit"}
          /\ err = <<"DevelopmentAndTargetBranchesMustDiffer">>
          /\ Exited => HaltedWith(<<"DevelopmentAndTargetBranchesMustDiffer">>)
          /\ Last(log) = Ev(GV, "prompt", <<"DevelopmentBranchToUse">>, "ok")
          /\ ~NegotiationFetched /\ conf = NoFile /\ RunCalls = << >>

C21_Witness ==
    /\ v.developmentBranch = v.targetBranch
    /\ v.targetBranch # v.sourceBranch
    /\ HaltedWith(<<"DevelopmentAndTargetBranchesMustDiffer">>)
    /\ inv.conf # NoFile

\* the number of entries of a sequence that satisfy a test
Count(s, Test(_)) == Len(SelectSeq(s, Test))

\* the format errors written, and the times each version prompt was asked
FormatErrors == Count(out, LAMBDA line : line[1] = "VersionFormatWrong")

VersionPrompts == Count(log, LAMBDA e : e[3] = <<"VersionNumberToUse">>)

NextVersionPrompts == Count(log, LAMBDA e : e[3] = <<"NextVersionToUse">>)

C23_TagExists ==
    /\ []((pc \in {"catch", "exit"} /\ log # << >>
            /\ Last(log) = Ev(GV, "doesTagExist", v.tag, "fail")) =>
              /\ err = <<"TagExists", v.tag>>
              /\ v.tag = createReleaseTag(v.packageVersion)
              /\ Exited => HaltedWith(<<"TagExists", v.tag>>)
              /\ conf = NoFile /\ locks = {} /\ RunCalls = << >>)
    /\ [][pc = "doesTagExist" =>
            /\ v.tag \in git.tags => pc' = "catch"
            /\ pc' = "catch" =>
                  /\ err' = <<"TagExists", v.tag>>
                  /\ Last(log') = Ev(GV, "doesTagExist", v.tag, "fail")
            /\ pc' # "catch" => pc' = "askNextVersion" /\ v.tag \notin git.tags]_vars

C23_Witness ==
    /\ Exited
    /\ Last(log) = Ev(GV, "doesTagExist", v.tag, "fail")
    /\ v.tag \notin git.tags
    /\ HaltedWith(<<"TagExists", v.tag>>)

\* the pulls getVariables() has made, in order
NegotiationPulls ==
    SelectSeq(NegotiationSteps, LAMBDA e : e[2] = "isBranchCleanWhenUpdatedFromRemote")

\* C24: getVariables() pulls the target branch and then the source branch,
\* each right after its checkout; it goes on after a pull only when the pull
\* succeeded and no merge conflicts were found, and then no unmerged files
\* are present; when the pull failed or merge conflicts were found (the
\* check answers so when it fails itself) that pull is the last thing the
\* invocation does, the error is MergeConflictsOnPullToFix naming the branch
\* pulled, no variable save file exists and run() has made no call.
C24_NegotiationPull ==
    /\ Len(NegotiationPulls) <= 2
    /\ \A i \in 1..Len(NegotiationPulls) :
          /\ NegotiationPulls[i][3] = (IF i = 1 THEN v.targetBranch ELSE v.sourceBranch)
          /\ i < Len(NegotiationPulls) => NegotiationPulls[i][4] = "ok"
    /\ \A i \in 1..Len(log) :
          (log[i][1] = GV /\ log[i][2] = "isBranchCleanWhenUpdatedFromRemote") =>
              /\ i > 1 /\ log[i - 1] = Ev(GV, "checkout", log[i][3], "ok")
              /\ log[i][4] = "ok" => (i = Len(log) => ~git.conflicts)
              /\ log[i][4] # "ok" =>
                    /\ log[i][4] \in {"pullFailed", "conflicts"}
                    /\ i = Len(log)
                    /\ pc \in {"catch", "exit"}
                    /\ err = <<"MergeConflictsOnPullToFix", log[i][3]>>
                    /\ Exited => HaltedWith(<<"MergeConflictsOnPullToFix", log[i][3]>>)
                    /\ conf = NoFile /\ locks = {} /\ RunCalls = << >>

C24_Witness ==
    /\ Exited
    /\ Len(NegotiationPulls) = 2
    /\ Last(log) = Ev(GV, "isBranchCleanWhenUpdatedFromRemote", v.sourceBranch, "conflicts")
    /\ ~git.conflicts
    /\ HaltedWith(<<"MergeConflictsOnPullToFix", v.sourceBranch>>)

\* what run() has done in this invocation, in order
RunLog == SelectSeq(log, LAMBDA e : e[1] = "run")

\* the version wanted at the read that is entry i of run()'s log r: the
\* release version on the release branch, the next version on the
\* development merge branch
WantedAt(r, i) ==
    IF r[i - 1][2] = "checkout" /\ r[i - 1][3] = releaseBranch
       THEN v.packageVersion ELSE v.nextPackageVersion

\* the reads of the version file that found the wanted version, and those
\* that found another
ReadsEqual(r) ==
    { i \in 2..Len(r) : /\ r[i][2] = "getRepositoryVersion" /\ r[i][4] = "ok"
                        /\ r[i][3] = WantedAt(r, i) }

ReadsDifferent(r) ==
    { i \in 2..Len(r) : /\ r[i][2] = "getRepositoryVersion" /\ r[i][4] = "ok"
                        /\ r[i][3] # WantedAt(r, i) }

\* C25: at both version bumps, when the version read equals the wanted
\* version the call after the read is neither an update of the version file
\* nor a commit and NoPackageUpdateNeeded is written; when it differs the
\* next call updates the version file to the wanted version and, the update
\* done, exactly one commit follows; an updating-version line is written for
\* each read that differs and for no other, and the version file is updated
\* and a commit made nowhere else.
C25_VersionBump ==
    LET r == RunLog
        equal == ReadsEqual(r)
        different == ReadsDifferent(r)
    IN  /\ r # << >> => r[1][2] # "getRepositoryVersion"
        /\ \A i \in equal :
              i < Len(r) => r[i + 1][2] \notin {"updateRepositoryVersion", "commit"}
        /\ \A i \in different :
              /\ i + 1 <= Len(r) =>
                    /\ r[i + 1][2] = "updateRepositoryVersion"
                    /\ r[i + 1][3] = WantedAt(r, i)
              /\ i + 2 <= Len(r) => r[i + 1][4] = "ok" /\ r[i + 2][2] = "commit"
              /\ i + 3 <= Len(r) => r[i + 3][2] # "commit"
        /\ \A j \in 1..Len(r) :
              /\ r[j][2] = "updateRepositoryVersion" => (j - 1) \in different
              /\ r[j][2] = "commit" => (j - 2) \in different
        /\ Count(out, LAMBDA line : line[1] \in {"ReleaseBranchPackageVersionUpdate",
                                                  "BranchPackageVersionUpdate"})
              = Cardinality(different)
        /\ Count(out, LAMBDA line : line[1] = "NoPackageUpdateNeeded") = Cardinality(equal)

C25_Witness ==
    /\ ReportedFinished
    /\ Cardinality(ReadsEqual(RunLog)) = 1
    /\ Cardinality(ReadsDifferent(RunLog)) = 1
    /\ Did("updateRepositoryVersion", v.nextPackageVersion)
    /\ ~Did("updateRepositoryVersion", v.packageVersion)

\* the branch the operator was on when the release of this invocation was
\* negotiated: by this invocation, or by the one that wrote the variable
\* save file it continues
NegotiatedOn == IF inv.resumed THEN inv.negotiatedOn ELSE v.initialBranch

\* C26: an invocation that has reported "Finished!", whether it negotiated
\* or continued, made its last checkout to the branch the operator was on
\* when the release was negotiated, or to the development branch when that
\* branch was not known then.
C26_ReturnsToInitialBranch ==
    ReportedFinished =>
        Last(log) = Ev("finish", "checkout",
                       IF NegotiatedOn # Empty THEN NegotiatedOn ELSE v.developmentBranch,
                       "ignored")

\* what a finished call was made with, and what it gave
Called(fn) == call.fn = fn /\ call.done

\* C27: when the branch step of stage 1 has succeeded, the release branch
\* was created by it: a local branch of that name that existed before the
\* step was deleted first, so the branch checked out is never the old one.
C27_ReleaseBranchIsFresh ==
    (Called("createAndCheckoutBranch") /\ call.result.res) =>
        call.args[2] \notin call.args[1]

\* C28: two different working directories share no progress file: neither
\* the variable save file nor any lock file of one is a file of the other.
C28_KeysAreIndependent ==
    (Called("progressFile") /\ call.args[1] # call.args[2]) =>
        call.result[1] \cap call.result[2] = {}

\* the parts of a version in #.#.# format
VersionParts(s) ==
    LET i == CHOOSE i \in 1..Len(s) : s[i] = "." /\ IsDigits(SubSeq(s, 1, i - 1))
        j == CHOOSE j \in (i + 1)..Len(s) : s[j] = "." /\ IsDigits(SubSeq(s, i + 1, j - 1))
    IN  << SubSeq(s, 1, i - 1), SubSeq(s, i + 1, j - 1), SubSeq(s, j + 1, Len(s)) >>

\* C29: the suggestion for a version a.b.c in #.#.# format is a.(b+1).0, as
\* numbers; for every other string it is 1.0.0.
C29_SuggestedNextVersion ==
    Called("getSuggestedNextRepositoryVersion") =>
        LET cv == call.args[1]
        IN  IF semverRegex(cv)
            THEN /\ semverRegex(call.result)
                 /\ StripZeros(VersionParts(call.result)[1]) = StripZeros(VersionParts(cv)[1])
                 /\ StripZeros(VersionParts(call.result)[2]) = Inc(StripZeros(VersionParts(cv)[2]))
                 /\ StripZeros(VersionParts(call.result)[3]) = <<"0">>
            ELSE call.result = <<"1", ".", "0", ".", "0">>

\* the lock file of the latest stage among the lock files ls
Latest(ls) == CHOOSE M \in ls : \A N \in ls : StageOf(N) <= StageOf(M)

\* the first call run() makes when it resumes at the lock file M
FirstCall(M) ==
    CASE M = sourceMergeLockFile -> <<"checkout", releaseBranch>>
      [] M = targetMergeLockFile -> <<"deleteRemoteBranch", releaseBranch>>
      [] M = taggingLockFile -> <<"checkout", v.targetBranch>>
      [] M = developmentPullMergeLockFile -> <<"checkout", v.developmentBranch>>
      [] M = developmentMergeLockFile -> <<"checkout", developmentMergeBranch>>

\* finish() has removed the progress files
FinishedReset == pc = "finishCheckout" \/ ReportedFinished

\* C30: in an invocation resumed with any non-empty set of lock files, with M
\* the lock file of the latest stage among them: run() has looked at the
\* lock files once, when it started; its first call is the one that follows
\* M; it makes no call of a stage before the stage of M; when it starts it
\* removes M and no other lock file, and until finish() every other lock
\* file found is still there.
C30_LatestMarkerDecides ==
    (inv.resumed /\ inv.locks # {} /\ pc # "run") =>
        LET M == Latest(inv.locks)
            calls == RunCalls
        IN  /\ sampled = LockFiles \ inv.locks
            /\ calls # << >> => calls[1] = FirstCall(M)
            /\ (calls = << >> /\ pc \in RunPoints) => locks = inv.locks \ {M}
            /\ ~FinishedReset => (inv.locks \ {M}) \subseteq locks
            /\ ~Did("createAndCheckoutBranch", releaseBranch)
            /\ ~Did("merge", v.sourceBranch)
            /\ StageOf(M) >= 2 =>
                  ~Did("merge", releaseBranch) /\ ~Did("push", v.targetBranch)
            /\ StageOf(M) >= 3 => ~Did("createTag", v.tag)
            /\ StageOf(M) >= 4 => ~Did("push", v.tag)
            /\ StageOf(M) >= 5 =>
                  /\ ~Did("pull", v.developmentBranch)
                  /\ ~Did("createAndCheckoutBranch", developmentMergeBranch)

C30_Witness ==
    /\ inv.resumed
    /\ inv.locks = {sourceMergeLockFile, targetMergeLockFile, taggingLockFile}
    /\ Did("push", v.tag)
    /\ pc = "checkoutDevelopment"
    /\ locks = {sourceMergeLockFile, targetMergeLockFile}

C32_StageProgressIsMonotone ==
    (Exited /\ inv.resumed) =>
        \A M \in inv.locks : \A N \in locks :
            /\ StageOf(N) >= StageOf(M)
            /\ M \in {sourceMergeLockFile, targetMergeLockFile} => N # M

C32_Witness ==
    /\ Exited
    /\ inv.resumed
    /\ inv.locks = {targetMergeLockFile}
    /\ locks = {developmentMergeLockFile}

\* C33: when an invocation starts and a lock file exists, the variable save
\* file exists; and a run() that follows a negotiation of the same
\* invocation finds all five lock files missing and starts with the
\* creation of the release branch.
C33_LockFileImpliesSaveFile ==
    /\ inv.locks # {} => inv.conf # NoFile
    /\ (~inv.resumed /\ pc \in RunPoints) => sampled = LockFiles
    /\ (~inv.resumed /\ RunCalls # << >>) =>
            RunCalls[1] = <<"createAndCheckoutBranch", releaseBranch>>

C33_Witness ==
    /\ ~inv.resumed
    /\ inv.locks = {taggingLockFile}
    /\ Declined
    /\ pc = "mergeSource"

\* run() has halted with an error that comes without a lock file: the
\* release branch could not be created, the source merge failed without
\* conflicts, the version file could not be read or written
UnmarkedFailure ==
    /\ Exited
    /\ RunFailed
    /\ \/ err \in { <<"CouldNotCreateBranch", releaseBranch>>, <<"NoVersionFound">>,
                    <<"FileError">> }
       \/ /\ err = <<"GitError">>
          /\ Len(RunCalls) >= 2
          /\ RunCalls[Len(RunCalls) - 1] = <<"merge", v.sourceBranch>>

\* C34: when run() has halted with an error that comes without a lock file
\* (the release branch could not be created, the source merge failed without
\* conflicts, ...), no lock file exists and the variable save file does; an
\* invocation continued from a variable save file alone takes all five lock
\* files as missing, and its first call creates the release branch.
C34_UnmarkedFailureRestarts ==
    /\ UnmarkedFailure => (locks = {} /\ conf # NoFile)
    /\ (inv.resumed /\ inv.locks = {} /\ pc \in RunPoints) => sampled = LockFiles
    /\ (inv.resumed /\ inv.locks = {} /\ RunCalls # << >>) =>
            RunCalls[1] = <<"createAndCheckoutBranch", releaseBranch>>

C34_Witness ==
    /\ inv.resumed
    /\ inv.conf # NoFile
    /\ inv.locks = {}
    /\ Exited
    /\ RunFailed
    /\ err = <<"GitError">>
    /\ Did("merge", v.sourceBranch)
    /\ locks = {}

\* C35: no step of run() changes the variable save file or the module
\* variables; while run() is running and after it has halted the save file
\* holds the seven variables; and in a continued invocation these are the
\* ones of the save file found, so the release branch and the development
\* merge branch have the names derived from that file.
C35_RunKeepsVariables ==
    /\ [][(pc \in RunPoints \cup {"run"}) => (conf' = conf /\ v' = v)]_vars
    /\ []((pc \in RunPoints \/ RunFailed) => conf = {SavedVariables(v)})
    /\ [](inv.resumed =>
            /\ inv.conf = {SavedVariables(v)}
            /\ \A file \in inv.conf :
                /\ releaseBranch = <<"release/">> \o file.tag
                /\ developmentMergeBranch =
                      <<"merge-banda/">> \o file.targetBranch \o <<"-to-">>
                                        \o file.developmentBranch)

C35_Witness ==
    /\ inv.resumed
    /\ Exited
    /\ RunFailed
    /\ inv.locks = {developmentPullMergeLockFile}
    /\ Did("createAndCheckoutBranch", developmentMergeBranch)
    /\ conf = inv.conf

\* the number of times run() has made the call
Attempts(op, arg) ==
    Cardinality({ i \in 1..Len(log) : log[i][1] = "run" /\ log[i][2] = op /\ log[i][3] = arg })

\* C36: run() makes each of the source merge, the push of target, the
\* creation of the tag, the push of the tag and the push of development at
\* most once in an invocation; after a rejection it makes no further call;
\* an invocation whose run() was entered ends either with "Finished!" and no
\* error or with the one error of the rejection as its last line; and, every
\* call returning, every run() comes to its end.
C36_NoRetry ==
    /\ [](\A c \in { <<"merge", v.sourceBranch>>, <<"push", v.targetBranch>>,
                      <<"createTag", v.tag>>, <<"push", v.tag>>,
                      <<"push", v.developmentBranch>> } : Attempts(c[1], c[2]) <= 1)
    /\ [][pc = "catch" => (log' = log /\ pc' = "exit")]_vars
    /\ []((Exited /\ \E i \in 1..Len(log) : log[i][1] = "run") =>
            \/ ReportedFinished /\ err = <<"">> /\ ~RunFailed
            \/ RunFailed /\ HaltedWith(err) /\ ~FinishedWritten)
    /\ (pc \in RunPoints \cup {"run"}) ~> Exited

C36_Witness ==
    /\ Exited
    /\ RunFailed
    /\ err = <<"CannotPushTags">>
    /\ Attempts("push", v.tag) = 1
    /\ Attempts("push", v.targetBranch) = 1
    /\ Attempts("merge", v.sourceBranch) = 1

\* C37: resetDeploy() raises no error, and afterwards the files left in the
\* progress directory are exactly those that were there and whose removal
\* fails: a missing file or a failing removal stops no other removal.
C37_ResetIsBestEffort ==
    Called("resetDeploy") =>
        /\ ~call.result.raised
        /\ call.result.files = call.args[1] \cap call.args[2]

C37_Witness ==
    /\ Called("resetDeploy")
    /\ call.args[1] = {variableSaveFile, taggingLockFile, developmentMergeLockFile}
    /\ call.args[2] = {variableSaveFile, taggingLockFile}
    /\ call.result.files = {variableSaveFile, taggingLockFile}

C39_TargetPushedOnlyAfterMerge ==
    [][(pc = "mergeRelease" /\ ~git.conflicts /\ git'.conflicts)
         => pc' # "pushTarget"]_vars

\* C40: the tag is pushed only when it was created: whenever run() has called
\* the push of the tag, the tag exists in the local repository.
C40_TagPushedOnlyIfCreated ==
    Did("push", v.tag) => v.tag \in git.tags

====
